---------------------------- MODULE Spec2Model ----------------------------
(***************************************************************************)
(* A model of the disk / loopback / mount management layer of mic          *)
(* (src/mic/utils/fs_related.py).                                          *)
(*                                                                         *)
(* Part A  one DiskMount object (generic, ext, vfat or btrfs) on one Disk  *)
(*         (RawDisk, LoopbackDisk, SparseLoopbackDisk): mount(), unmount() *)
(*         and cleanup(), each a whole call, with the external commands    *)
(*         the call issues recorded in order.            (SpecMount)       *)
(* Part B  get_loop_device() called by concurrent processes, one system    *)
(*         call per step, with the release of the device and the exit      *)
(*         handlers of LoopDevice.                        (SpecLoop)       *)
(* Part C  ExtDiskMount.__resize_to_minimal, one loop iteration per step   *)
(*         (SpecSearch), and ExtDiskMount.resparse()      (SpecResparse).  *)
(* Part D  the bind mounts of a chroot environment (src/mic/chroot.py,     *)
(*         SpecChroot) and of a BaseImageCreator                           *)
(*         (src/mic/imager/baseimager.py, SpecBind), each call whole.      *)
(* Part E  DeviceMapperSnapshot and create_image_minimizer (SpecSnapshot). *)
(*                                                                         *)
(* Every specification leaves the variables of the other parts at their    *)
(* initial values.                                                         *)
(***************************************************************************)
EXTENDS Integers, Sequences, FiniteSets, TLC

VARIABLES
    dm,     \* Part A: the DiskMount object, its Disk, the host state it acts on, and the last call
    lp,     \* Part B: the processes inside get_loop_device and the host's loop devices and lock file
    rs,     \* Part C: the ext mount being resparsed and the position inside resparse()
    ch,     \* Part D: a set of BindChrootMount objects, the chroot lock, and the last call
    sn      \* Part E: a DeviceMapperSnapshot, its two loop disks, and the last call

vars == <<dm, lp, rs, ch, sn>>

\* The variables that the actions of one part leave alone.
OthersThanMount == <<lp, rs, ch, sn>>
OthersThanLoop == <<dm, rs, ch, sn>>
OthersThanResparse == <<dm, lp, ch, sn>>
OthersThanChroot == <<dm, lp, rs, sn>>
OthersThanSnapshot == <<dm, lp, rs, ch>>

Max(a, b) == IF a >= b THEN a ELSE b

(***************************************************************************)
(*                         Part A: DiskMount                               *)
(***************************************************************************)

\* The largest position in a call's command sequence at which a failing
\* exit status is injected (0: every command succeeds).
MaxFailAt == 16

\* Declared disk size of the mounts of Part A, in abstract size units.
DeclSize == 2

\* The size the data of a filesystem needs, in the mounts of Part A.
MinData == 1

\* Python's None where a size is expected (sizes are naturals).
None == 0 - 1

\* An external command (or a write to the backing file) issued by a call.
Cmd(c, i) == [cmd |-> c, arg |-> i]

\* runner.show / runner.quiet / runner.runtool: the command is issued, and
\* its exit status is non-zero when this is the position chosen to fail.
Issue(s, c, i) == [s EXCEPT !.log = Append(@, Cmd(c, i))]
Failed(s) == Len(s.log) = s.failAt
Raise(s, e) == [s EXCEPT !.raised = e]
Ok(s) == s.raised = "none"

\* Subvolume lists a BtrfsDiskMount is constructed with (loop.py builds one
\* dict per kickstart subvolume, 'mounted': False; at most one is "/").
Subvol(isRoot, q) == [root |-> isRoot, quota |-> q, mounted |-> FALSE]
SubvolLists ==
    { <<>>,
      << Subvol(FALSE, FALSE) >>,
      << Subvol(TRUE, FALSE), Subvol(FALSE, TRUE) >>,
      << Subvol(FALSE, FALSE), Subvol(FALSE, FALSE) >> }

\* The most snapshots a BtrfsDiskMount is constructed with.
MaxSnapshots == 2

\* ---- Disk -------------------------------------------------------------

\* RawDisk.fixed / LoopbackDisk.fixed
Disk_fixed(s) == s.kind = "raw"

\* RawDisk.exists / LoopbackDisk.exists
Disk_exists(s) == IF s.kind = "raw" THEN TRUE ELSE s.fileExists

\* expand() that seeks to size - 1 and writes nothing: the file keeps its length.
SparseLoopbackDisk_expand_nowrite(s, create, sizeArg) ==
    IF ~Ok(s) THEN s
    ELSE IF ~create /\ ~s.fileExists THEN Raise(s, "OSError")
    ELSE [s EXCEPT !.fileExists = TRUE,
                   !.fileLen = IF s.fileExists THEN s.fileLen ELSE 0]

\* SparseLoopbackDisk.expand(create, size): size None means the declared size.
SparseLoopbackDisk_expand(s, create, sizeArg) ==
    IF ~Ok(s) THEN s
    ELSE LET size == IF sizeArg = None THEN s.size ELSE sizeArg
             old  == IF s.fileExists THEN s.fileLen ELSE 0
             o    == [s EXCEPT !.fileExists = TRUE, !.fileLen = old]
         IN  IF ~create /\ ~s.fileExists THEN Raise(s, "OSError")
             ELSE IF size = 0 THEN Raise(o, "OSError")
             ELSE [Issue(o, "write lofile", size) EXCEPT !.fileLen = Max(old, size)]

\* LoopbackDisk.create: binds the file through get_loop_device unless bound
\* (`losetup <dev> <file>` fails on a file that does not exist).
LoopbackDisk_create(s) ==
    IF ~Ok(s) \/ s.device THEN s
    ELSE LET a == Issue(s, "losetup", 0)
         IN  IF Failed(a) \/ ~s.fileExists THEN Raise(a, "MountError")
             ELSE [a EXCEPT !.device = TRUE]

\* Disk.create / LoopbackDisk.create / SparseLoopbackDisk.create
Disk_create(s) ==
    CASE s.kind = "raw"    -> s
      [] s.kind = "loop"   -> LoopbackDisk_create(s)
      [] s.kind = "sparse" -> LoopbackDisk_create(SparseLoopbackDisk_expand(s, TRUE, None))

\* SparseLoopbackDisk.truncate(size): size None means the declared size.
SparseLoopbackDisk_truncate(s, sizeArg) ==
    IF ~Ok(s) THEN s
    ELSE IF ~s.fileExists THEN Raise(s, "OSError")
    ELSE LET size == IF sizeArg = None THEN s.size ELSE sizeArg
         IN  [Issue(s, "ftruncate lofile", size) EXCEPT !.fileLen = size]

\* cleanup() that forgets the device only when `losetup -d` succeeded.
Disk_cleanup_checked(s) ==
    IF ~Ok(s) \/ s.kind = "raw" \/ ~s.device THEN s
    ELSE LET a == Issue(s, "losetup -d", 0)
         IN  [a EXCEPT !.device = Failed(a)]

\* Disk.cleanup / LoopbackDisk.cleanup: `losetup -d`, its status ignored.
Disk_cleanup(s) ==
    IF ~Ok(s) \/ s.kind = "raw" \/ ~s.device THEN s
    ELSE [Issue(s, "losetup -d", 0) EXCEPT !.device = FALSE]

\* disk.expand(size) as __resize_filesystem calls it: the size lands in the
\* `create` parameter, and only SparseLoopbackDisk has the method.
Disk_expand_positional(s, size) ==
    IF ~Ok(s) THEN s
    ELSE IF s.kind = "sparse" THEN SparseLoopbackDisk_expand(s, size # 0, None)
    ELSE Raise(s, "AttributeError")

\* ---- DiskMount ----------------------------------------------------------

\* The umount command: a non-zero status when it is the command chosen to
\* fail or when the mount table has no entry for the directory.
UmountFails(s, a) == Failed(a) \/ ~s.osMounted

\* unmount() that removes the directory whoever made it.
DiskMount_unmount_anydir(s) ==
    IF ~Ok(s) THEN s
    ELSE LET u == IF s.mounted
                  THEN LET a == Issue(Issue(s, "sync", 0), "umount -l", 0)
                       IN  IF ~UmountFails(s, a)
                           THEN [a EXCEPT !.mounted = FALSE, !.osMounted = FALSE]
                           ELSE Raise(a, "MountError")
                  ELSE s
         IN  IF Ok(u) /\ ~u.mounted
             THEN LET r == Issue(u, "rmdir", 0)
                  IN  [r EXCEPT !.rmdir = FALSE,
                                !.dirExists = IF Failed(r) THEN u.dirExists ELSE FALSE]
             ELSE u

\* DiskMount.unmount
DiskMount_unmount(s) ==
    IF ~Ok(s) THEN s
    ELSE LET u == IF s.mounted
                  THEN LET a == Issue(Issue(s, "sync", 0), "umount -l", 0)
                       IN  IF ~UmountFails(s, a)
                           THEN [a EXCEPT !.mounted = FALSE, !.osMounted = FALSE]
                           ELSE Raise(a, "MountError")
                  ELSE s
         IN  IF Ok(u) /\ u.rmdir /\ ~u.mounted
             THEN LET r == Issue(u, "rmdir", 0)
                  IN  [r EXCEPT !.rmdir = FALSE,
                                !.dirExists = IF Failed(r) THEN u.dirExists ELSE FALSE]
             ELSE u

\* mount() that sets `mounted` before it looks at the command's status.
DiskMount_mount_unchecked(s) ==
    IF ~Ok(s) \/ s.mounted THEN s
    ELSE LET d == IF ~s.dirExists
                  THEN [Issue(s, "makedirs", 0) EXCEPT !.dirExists = TRUE, !.madeDir = TRUE,
                                                       !.rmdir = s.rmmountdir]
                  ELSE s
             c == Disk_create(d)
         IN  IF ~Ok(c) THEN c
             ELSE LET a == Issue(c, "mount", 0)
                  IN  IF Failed(a) THEN Raise([a EXCEPT !.mounted = TRUE], "MountError")
                      ELSE [a EXCEPT !.mounted = TRUE, !.osMounted = TRUE]

\* DiskMount.mount
DiskMount_mount(s) ==
    IF ~Ok(s) \/ s.mounted THEN s
    ELSE LET d == IF ~s.dirExists
                  THEN [Issue(s, "makedirs", 0) EXCEPT !.dirExists = TRUE, !.madeDir = TRUE,
                                                       !.rmdir = s.rmmountdir]
                  ELSE s
             c == Disk_create(d)
         IN  IF ~Ok(c) THEN c
             ELSE LET a == Issue(c, "mount", 0)
                  IN  IF Failed(a) THEN Raise(a, "MountError")
                      ELSE [a EXCEPT !.mounted = TRUE, !.osMounted = TRUE]

\* ExtDiskMount / VfatDiskMount / BtrfsDiskMount.__format_filesystem
Format_filesystem(s) ==
    IF ~Ok(s) \/ s.skipformat THEN s
    ELSE LET a == Issue(s, "mkfs", 0)
             b == [a EXCEPT !.fsSize = IF s.kind = "raw" THEN s.size ELSE s.fileLen]
         IN  IF Failed(a) THEN Raise(a, "MountError")
             ELSE IF s.variant = "ext"
                  THEN Issue(Issue(b, "dumpe2fs", 0), "tune2fs", 0)
                  ELSE Issue(b, "blkid", 0)

\* resize2fs(fs, size): `resize2fs -M` when size == 0, else the size in K.
\* The size is passed as twice its value, so that the halves the binary
\* search produces (Python 3 true division) stay exact.  The tool exits
\* non-zero when this command is the one chosen to fail, or when the size
\* asked for is below what the data needs; when it succeeds the filesystem
\* has the new size and so has the image file (resize2fs extends or
\* truncates a regular file it resizes).  -M shrinks to what the data needs.
resize2fs(s, size2) ==
    LET a == Issue(s, IF size2 = 0 THEN "resize2fs -M" ELSE "resize2fs", size2 \div 2)
        target == IF size2 = 0 THEN s.minData ELSE size2 \div 2
    IN  IF Failed(a) \/ (size2 # 0 /\ size2 < 2 * s.minData)
        THEN [a EXCEPT !.rc = 1]
        ELSE [a EXCEPT !.rc = 0, !.fsSize = target, !.fileLen = target]

\* ExtDiskMount / VfatDiskMount / BtrfsDiskMount.__resize_filesystem(size);
\* only the ext variant runs resize2fs.
Resize_filesystem(s, sizeArg) ==
    IF ~Ok(s) THEN s
    ELSE IF ~s.fileExists THEN Raise(s, "OSError")
    ELSE LET size == IF sizeArg = None THEN s.size ELSE sizeArg
         IN  IF size = s.fileLen THEN s
             ELSE LET e == IF size > s.fileLen THEN Disk_expand_positional(s, size) ELSE s
                      f == IF Ok(e) THEN Issue(e, "fsck", 0) ELSE e
                  IN  IF Ok(f) /\ s.variant = "ext" THEN resize2fs(f, 2 * size) ELSE f

\* __create that never takes the resize branch.
Fs_create_format(s) ==
    IF ~Ok(s) THEN s ELSE Format_filesystem(Disk_create(s))

\* ExtDiskMount / VfatDiskMount / BtrfsDiskMount.__create
Fs_create(s) ==
    IF ~Ok(s) THEN s
    ELSE LET resize == ~Disk_fixed(s) /\ Disk_exists(s)
             c == Disk_create(s)
         IN  IF resize THEN Resize_filesystem(c, None) ELSE Format_filesystem(c)

\* ---- BtrfsDiskMount ------------------------------------------------------

\* BtrfsDiskMount.__get_subvolume_id: `btrfs subvolume list`.
Get_subvolume_id(s) ==
    IF ~Ok(s) THEN s
    ELSE LET a == Issue(s, "btrfs subvolume list", 0)
         IN  IF Failed(a) THEN Raise(a, "MountError") ELSE a

\* BtrfsDiskMount.__create_subvolumes, the loop over self.subvolumes from
\* the i-th on: one `btrfs subvolume create` each.
RECURSIVE Create_each_subvolume(_, _)
Create_each_subvolume(s, i) ==
    IF ~Ok(s) \/ i > Len(s.subvolumes) THEN s
    ELSE LET q == IF s.subvolumes[i].quota
                  THEN LET e == Issue(s, "btrfs quota enable", i)
                       IN  IF Failed(e) THEN Raise(e, "MountError") ELSE e
                  ELSE s
         IN  IF ~Ok(q) THEN q
             ELSE LET a == Issue(q, "btrfs subvolume create", i)
                  IN  IF Failed(a) THEN Raise(a, "MountError")
                      ELSE Create_each_subvolume(a, i + 1)

\* BtrfsDiskMount.__create_subvolume_metadata
Create_subvolume_metadata(s) ==
    IF ~Ok(s) \/ Len(s.subvolumes) = 0 THEN s
    ELSE LET a == Issue(s, "btrfs subvolume list", 0)
         IN  IF Failed(a) THEN Raise(a, "MountError")
             ELSE [a EXCEPT !.metadata = TRUE]

\* BtrfsDiskMount.__create_subvolumes
Create_subvolumes(s) ==
    IF ~Ok(s) THEN s
    ELSE IF s.subvolumesNone \/ Len(s.subvolumes) = 0 THEN s
    ELSE LET c == Create_each_subvolume(s, 1)
             hasRoot == \E i \in 1..Len(s.subvolumes) : s.subvolumes[i].root
             d == IF Ok(c) /\ hasRoot
                  THEN LET g == Get_subvolume_id(c)
                       IN  IF ~Ok(g) THEN g
                           ELSE LET a == Issue(g, "btrfs subvolume set-default", 0)
                                IN  IF Failed(a) THEN Raise(a, "MountError") ELSE a
                  ELSE c
         IN  Create_subvolume_metadata(d)

\* BtrfsDiskMount.__mount_subvolumes, the loop over self.subvolumes from
\* the i-th on: every subvolume but "/" is mounted by its id.
RECURSIVE Mount_each_subvolume(_, _)
Mount_each_subvolume(s, i) ==
    IF ~Ok(s) \/ i > Len(s.subvolumes) THEN s
    ELSE IF s.subvolumes[i].root THEN Mount_each_subvolume(s, i + 1)
    ELSE LET g == Get_subvolume_id(s)
         IN  IF ~Ok(g) THEN g
             ELSE LET a == Issue(g, "mount subvolume", i)
                  IN  IF Failed(a) THEN Raise(a, "MountError")
                      ELSE Mount_each_subvolume(
                               [a EXCEPT !.subvolumes[i].mounted = TRUE], i + 1)

\* BtrfsDiskMount.__get_subvolume_metadata: a sidecar file with a
\* four-field line reaches the undefined name p.
Get_subvolume_metadata(s) ==
    IF ~Ok(s) \/ ~s.metadata THEN s
    ELSE IF s.subvolumesNone THEN Raise(s, "AttributeError")
    ELSE Raise(s, "NameError")

\* BtrfsDiskMount.__mount_subvolumes
Mount_subvolumes(s) ==
    IF ~Ok(s) THEN s
    ELSE LET m == IF s.skipformat THEN Get_subvolume_metadata(s) ELSE s
         IN  IF ~Ok(m) THEN m
             ELSE IF m.subvolumesNone THEN Raise(m, "TypeError")
             ELSE IF Len(m.subvolumes) = 0 THEN m
             ELSE LET u == Issue(m, "umount", 0)
                  IN  IF UmountFails(m, u) THEN Raise(u, "MountError")
                      ELSE LET a == Issue([u EXCEPT !.osMounted = FALSE], "mount", 0)
                           IN  IF Failed(a) THEN Raise(a, "MountError")
                               ELSE Mount_each_subvolume([a EXCEPT !.osMounted = TRUE], 1)

\* BtrfsDiskMount.__create_subvolume_snapshots, the loop over self.snapshots.
RECURSIVE Snapshot_each(_, _)
Snapshot_each(s, i) ==
    IF ~Ok(s) \/ i > s.snapshots THEN s
    ELSE LET a == Issue(s, "btrfs subvolume snapshot", i)
         IN  IF Failed(a) THEN Raise(a, "MountError")
             ELSE Snapshot_each([a EXCEPT !.snapDone[i] = IF @ < 2 THEN @ + 1 ELSE @],
                                i + 1)

\* BtrfsDiskMount.__create_subvolume_snapshots
Create_subvolume_snapshots(s) ==
    IF ~Ok(s) \/ s.snapshots = 0 \/ s.snapped THEN s
    ELSE LET u == Issue(s, "umount", 0)
         IN  IF UmountFails(s, u) THEN Raise(u, "MountError")
             ELSE LET a == Issue([u EXCEPT !.osMounted = FALSE], "mount", 0)
                  IN  IF Failed(a) THEN Raise(a, "MountError")
                      ELSE LET n == Snapshot_each([a EXCEPT !.osMounted = TRUE], 1)
                           IN  IF Ok(n) THEN [n EXCEPT !.snapped = TRUE] ELSE n

\* BtrfsDiskMount.__unmount_subvolumes, the loop over self.subvolumes from
\* the i-th on.
RECURSIVE Unmount_each_subvolume(_, _)
Unmount_each_subvolume(s, i) ==
    IF ~Ok(s) \/ i > Len(s.subvolumes) THEN s
    ELSE IF s.subvolumes[i].root \/ ~s.subvolumes[i].mounted
         THEN Unmount_each_subvolume(s, i + 1)
    ELSE LET a == Issue(s, "umount subvolume", i)
         IN  IF Failed(a) THEN Raise(a, "MountError")
             ELSE Unmount_each_subvolume(
                      [a EXCEPT !.subvolumes[i].mounted = FALSE], i + 1)

\* BtrfsDiskMount.__unmount_subvolumes
Unmount_subvolumes(s) ==
    IF ~Ok(s) THEN s
    ELSE IF s.subvolumesNone THEN Raise(s, "TypeError")
    ELSE Create_subvolume_snapshots(Unmount_each_subvolume(s, 1))

\* ---- the three public calls, by variant ---------------------------------

\* DiskMount.mount / ExtDiskMount.mount / VfatDiskMount.mount /
\* BtrfsDiskMount.mount
Mount_call(s) ==
    CASE s.variant = "generic" -> DiskMount_mount(s)
      [] s.variant \in {"ext", "vfat"} -> DiskMount_mount(Fs_create(s))
      [] s.variant = "btrfs" ->
            Mount_subvolumes(Create_subvolumes(DiskMount_mount(Fs_create(s))))

\* DiskMount.unmount / BtrfsDiskMount.unmount
Unmount_call(s) ==
    IF s.variant = "btrfs" THEN DiskMount_unmount(Unmount_subvolumes(s))
    ELSE DiskMount_unmount(s)

\* DiskMount.cleanup: Mount.cleanup (self.unmount()), then disk.cleanup().
Cleanup_call(s) == Disk_cleanup(Unmount_call(s))

\* ---- Part A: initial states and actions ----------------------------------

\* What the last call found and did: the call, the state it was made in,
\* the commands it issued in order, and the exception it raised.
NoCall == [op |-> "none", preMounted |-> FALSE, preOsMounted |-> FALSE,
           preSubMounted |-> FALSE, preDevice |-> FALSE, preExists |-> FALSE,
           preRmdir |-> FALSE, afterFailedMount |-> FALSE]

AnySubvolMounted(s) == \E i \in 1..Len(s.subvolumes) : s.subvolumes[i].mounted

\* DiskMount.__init__ (and the variants') on a freshly constructed Disk,
\* with the host as the constructor finds it.
InitMount ==
    \E variant \in {"generic", "ext", "vfat", "btrfs"},
       kind \in {"raw", "loop", "sparse"},
       skipformat, rmmountdir, dirExists, fileExists, metadata, subvolumesNone \in BOOLEAN,
       fileLen \in 0..(DeclSize + 1),
       subvolumes \in SubvolLists,
       snapshots \in 0..MaxSnapshots :
        /\ variant = "generic" => ~skipformat
        /\ kind = "loop" => variant = "generic"
        /\ variant # "btrfs" =>
              ~subvolumesNone /\ subvolumes = <<>> /\ snapshots = 0 /\ ~metadata
        /\ subvolumesNone => subvolumes = <<>>
        /\ metadata => fileExists
        /\ kind = "raw" => ~fileExists
        /\ fileExists <=> fileLen > 0
        /\ dm = [variant |-> variant, kind |-> kind, skipformat |-> skipformat,
                 rmmountdir |-> rmmountdir, size |-> DeclSize,
                 mounted |-> FALSE, rmdir |-> FALSE, madeDir |-> FALSE,
                 device |-> (kind = "raw"),
                 subvolumesNone |-> subvolumesNone, subvolumes |-> subvolumes,
                 snapshots |-> snapshots, snapped |-> FALSE,
                 snapDone |-> [i \in 1..snapshots |-> 0],
                 dirExists |-> dirExists, osMounted |-> FALSE,
                 fileExists |-> fileExists, fileLen |-> fileLen, metadata |-> metadata,
                 fsSize |-> fileLen, minData |-> MinData, rc |-> 0,
                 call |-> NoCall, log |-> <<>>, raised |-> "none", failAt |-> 0]

\* The call before was a mount() that raised MountError at the mount command.
MountCommandFailed(s) ==
    /\ s.call.op = "mount" /\ s.raised = "MountError"
    /\ s.log # <<>> /\ s.log[Len(s.log)] = Cmd("mount", 0)

\* The object as a call finds it: nothing issued yet, no exception pending.
Enter(s, op, f) ==
    [s EXCEPT !.call = [op |-> op, preMounted |-> s.mounted,
                        preOsMounted |-> s.osMounted,
                        preSubMounted |-> AnySubvolMounted(s),
                        preDevice |-> s.device,
                        preExists |-> Disk_exists(s),
                        preRmdir |-> s.rmdir,
                        afterFailedMount |-> MountCommandFailed(s)],
              !.log = <<>>, !.raised = "none", !.failAt = f]

Leave(s) == [s EXCEPT !.failAt = 0]

\* A caller calls mount().
Mount ==
    /\ \E f \in 0..MaxFailAt : dm' = Leave(Mount_call(Enter(dm, "mount", f)))
    /\ UNCHANGED OthersThanMount

\* A caller calls unmount().
Unmount ==
    /\ \E f \in 0..MaxFailAt : dm' = Leave(Unmount_call(Enter(dm, "unmount", f)))
    /\ UNCHANGED OthersThanMount

\* A caller calls cleanup().
Cleanup ==
    /\ \E f \in 0..MaxFailAt : dm' = Leave(Cleanup_call(Enter(dm, "cleanup", f)))
    /\ UNCHANGED OthersThanMount

NextMount == Mount \/ Unmount \/ Cleanup


(***************************************************************************)
(*                 Part B: get_loop_device, concurrently                   *)
(***************************************************************************)

\* The processes that call get_loop_device: 1..NProcs.
NProcs == 2

\* The most calls of get_loop_device one process makes.
MaxCalls == 2

\* The kernel's loop devices are /dev/loop0 .. /dev/loop<MaxKernelId>.
MaxKernelId == 101

\* _genloopid: `if maxid < 10: maxid = 10` and `if maxid >= 100: raise`.
MinLoopId == 10
LoopIdLimit == 100

Procs == 1..NProcs
KernelIds == 0..MaxKernelId

\* A binding made by another program of the host.
Foreign == 0

SetMax(S) == CHOOSE x \in S : \A y \in S : y <= x
SetMin(S) == CHOOSE x \in S : \A y \in S : x <= y

\* `losetup -a`: the devices that are attached.
Attached(l) == {b[1] : b \in l.bound}

\* LoopDevice._genloopid: 1 + the largest id below 100 among /dev/loop[0-9]*,
\* at least 10; -1 stands for the exception it ends with when there is no
\* such node (max of an empty list) or when the id would be 100 or more.
Genloopid(nodes) ==
    LET ids == {x \in nodes : x < LoopIdLimit}
        maxid == 1 + SetMax(ids)
    IN  IF ids = {} THEN None
        ELSE IF maxid < MinLoopId THEN MinLoopId
        ELSE IF maxid >= LoopIdLimit THEN None
        ELSE maxid

\* Every id from 10 to 99 has its node, so that _genloopid finds none left.
NoIdBelowLimit(l) == MinLoopId..(LoopIdLimit - 1) \subseteq l.nodes

\* `losetup -f`: the first loop device that is not attached, None when
\* every device is attached (the command exits non-zero).
Losetup_f(l) ==
    LET free == KernelIds \ Attached(l)
    IN  IF free = {} THEN None ELSE SetMin(free)

\* open(DEVICE_LOCKFILE, 'w') when no file has the name: a new inode, one
\* that no process has open.
FreshInode(l) ==
    CHOOSE i \in 1..(NProcs + 1) : \A q \in Procs : l.fp[q] # i

\* fcntl.flock(fp, LOCK_EX) returns once no other open file of the same
\* inode holds the lock.
CanLock(l, p) == \A q \in Procs \ {p} : ~(l.locked[q] /\ l.fp[q] = l.fp[p])

\* `rc != 0` after `losetup <dev> <file>`: MountError.
AttachRefused(rc) == rc # 0

\* The device nodes and bindings get_loop_device may find on the host.
HostStates ==
    { [nodes |-> {}, bound |-> {}],
      [nodes |-> 0..7, bound |-> {}],
      [nodes |-> 0..7, bound |-> {<<0, Foreign>>}],
      [nodes |-> 0..(LoopIdLimit - 3), bound |-> {}],
      [nodes |-> 0..(LoopIdLimit - 1), bound |-> {<<i, Foreign>> : i \in 0..(LoopIdLimit - 1)}],
      [nodes |-> 0..(LoopIdLimit - 1), bound |-> {<<i, Foreign>> : i \in 1..(LoopIdLimit - 1)}],
      [nodes |-> KernelIds, bound |-> {<<i, Foreign>> : i \in 0..(MaxKernelId - 1)}] }

InitLoop ==
    \E h \in HostStates :
        lp = [nodes |-> h.nodes, bound |-> h.bound, lockPath |-> 0,
              pc |-> [p \in Procs |-> "idle"],
              fp |-> [p \in Procs |-> 0],
              locked |-> [p \in Procs |-> FALSE],
              loopid |-> [p \in Procs |-> None],
              loopdev |-> [p \in Procs |-> None],
              exhausted |-> [p \in Procs |-> FALSE],
              raising |-> [p \in Procs |-> FALSE],
              device |-> [p \in Procs |-> None],
              created |-> [p \in Procs |-> <<>>],
              calls |-> [p \in Procs |-> 0]]

Goto(l, p, pc) == [l EXCEPT !.pc[p] = pc]

\* LoopbackDisk.create on an unbound disk: get_loop_device is called.
LoopCall(p) ==
    /\ lp.pc[p] = "idle" /\ lp.calls[p] < MaxCalls
    /\ lp' = [lp EXCEPT !.pc[p] = "open", !.calls[p] = @ + 1,
                        !.loopid[p] = None, !.loopdev[p] = None,
                        !.exhausted[p] = FALSE, !.raising[p] = FALSE]
    /\ UNCHANGED OthersThanLoop

\* fp = open(DEVICE_LOCKFILE, 'w')
LoopOpen(p) ==
    /\ lp.pc[p] = "open"
    /\ lp' = IF lp.lockPath = 0
             THEN [lp EXCEPT !.lockPath = FreshInode(lp), !.fp[p] = FreshInode(lp),
                             !.pc[p] = "flock"]
             ELSE [lp EXCEPT !.fp[p] = lp.lockPath, !.pc[p] = "flock"]
    /\ UNCHANGED OthersThanLoop

\* fcntl.flock(fp, fcntl.LOCK_EX)
LoopFlock(p) ==
    /\ lp.pc[p] = "flock" /\ CanLock(lp, p)
    /\ lp' = [lp EXCEPT !.locked[p] = TRUE, !.pc[p] = "genloopid"]
    /\ UNCHANGED OthersThanLoop

\* LoopDevice.create: self.loopid = self._genloopid()
LoopGenloopid(p) ==
    /\ lp.pc[p] = "genloopid"
    /\ LET id == Genloopid(lp.nodes)
       IN  lp' = IF id = None
                 THEN [lp EXCEPT !.pc[p] = "fallback",
                                 !.exhausted[p] = NoIdBelowLimit(lp)]
                 ELSE [lp EXCEPT !.pc[p] = "exists", !.loopid[p] = id]
    /\ UNCHANGED OthersThanLoop

\* LoopDevice.create: os.path.exists(self.device)
LoopExists(p) ==
    /\ lp.pc[p] = "exists"
    /\ lp' = Goto(lp, p, IF lp.loopid[p] \in lp.nodes THEN "loseek" ELSE "mknod")
    /\ UNCHANGED OthersThanLoop

\* LoopDevice.create: the node exists; busy when `losetup -a` lists it.
LoopLoseek(p) ==
    /\ lp.pc[p] = "loseek"
    /\ lp' = IF lp.loopid[p] \in Attached(lp)
             THEN Goto(lp, p, "fallback")
             ELSE [lp EXCEPT !.loopdev[p] = lp.loopid[p], !.pc[p] = "unlock",
                             !.created[p] = Append(@, lp.loopid[p])]
    /\ UNCHANGED OthersThanLoop

\* LoopDevice.create: os.mknod(self.device, ...), which fails on a node
\* that exists by now.
LoopMknod(p) ==
    /\ lp.pc[p] = "mknod"
    /\ lp' = IF lp.loopid[p] \in lp.nodes
             THEN Goto(lp, p, "fallback")
             ELSE [lp EXCEPT !.nodes = @ \cup {lp.loopid[p]},
                             !.loopdev[p] = lp.loopid[p], !.pc[p] = "unlock",
                             !.created[p] = Append(@, lp.loopid[p])]
    /\ UNCHANGED OthersThanLoop

\* get_loop_device, `except:` -- any failure of the fast path: `losetup -f`.
LoopFallback(p) ==
    /\ lp.pc[p] = "fallback"
    /\ LET d == Losetup_f(lp)
       IN  lp' = IF d = None
                 THEN [lp EXCEPT !.raising[p] = TRUE, !.pc[p] = "unlock"]
                 ELSE [lp EXCEPT !.nodes = @ \cup {d}, !.loopdev[p] = d, !.pc[p] = "unlock"]
    /\ UNCHANGED OthersThanLoop

\* The finally clause going on without releasing the lock.
LoopUnlock_held(p) ==
    /\ lp.pc[p] = "unlock"
    /\ lp' = [lp EXCEPT !.pc[p] = "unlink"]
    /\ UNCHANGED OthersThanLoop

\* finally: fcntl.flock(fp, fcntl.LOCK_UN); fp.close()
LoopUnlock(p) ==
    /\ lp.pc[p] = "unlock"
    /\ lp' = [lp EXCEPT !.locked[p] = FALSE, !.fp[p] = 0, !.pc[p] = "unlink"]
    /\ UNCHANGED OthersThanLoop

\* finally: os.unlink(DEVICE_LOCKFILE), an error of which is passed over;
\* then the MountError of a failed fallback reaches the caller.
LoopUnlink(p) ==
    /\ lp.pc[p] = "unlink"
    /\ lp' = [lp EXCEPT !.lockPath = 0,
                        !.pc[p] = IF lp.raising[p] THEN "idle" ELSE "attach"]
    /\ UNCHANGED OthersThanLoop

\* rc = runner.show([losetupcmd, loopdev, lofile]): the kernel refuses a
\* device that is attached; the command may fail for other reasons too.
LoopAttach(p) ==
    /\ lp.pc[p] = "attach"
    /\ \E fails \in BOOLEAN :
         LET busy == lp.loopdev[p] \in Attached(lp)
             rc == IF busy \/ fails THEN 1 ELSE 0
             l1 == IF rc = 0 THEN [lp EXCEPT !.bound = @ \cup {<<lp.loopdev[p], p>>}]
                   ELSE lp
         IN  lp' = IF AttachRefused(rc)
                   THEN [l1 EXCEPT !.raising[p] = TRUE, !.pc[p] = "idle"]
                   ELSE [l1 EXCEPT !.device[p] = lp.loopdev[p], !.pc[p] = "bound"]
    /\ UNCHANGED OthersThanLoop

\* `losetup -d <dev>`: the device is detached from whatever file it is
\* attached to, unless the kernel refuses because the device is in use.
Losetup_d(l, d, refused) ==
    IF refused THEN l ELSE [l EXCEPT !.bound = {b \in @ : b[1] # d}]

\* LoopbackDisk.cleanup: `losetup -d self.device`, the exit status of which
\* is not looked at; self.device = None.
LoopRelease(p) ==
    /\ lp.pc[p] = "bound"
    /\ \E refused \in BOOLEAN :
         lp' = [Losetup_d(lp, lp.device[p], refused)
                   EXCEPT !.device[p] = None, !.pc[p] = "idle"]
    /\ UNCHANGED OthersThanLoop

\* The process ends: the handlers that LoopDevice.__init__ registered with
\* atexit run, the last one first.
LoopExit(p) ==
    /\ lp.pc[p] = "idle" /\ lp.calls[p] > 0
    /\ lp' = Goto(lp, p, "exiting")
    /\ UNCHANGED OthersThanLoop

\* LoopDevice.cleanup of an instance that `created` its device: detach
\* the device if `losetup -a` lists it, then unlink the node if it is no
\* longer listed.  kpfails: `kpartx -l` exits non-zero, the MountError of
\* which close() reports and drops.
LoopDevice_cleanup(l, d, kpfails, refused) ==
    LET l1 == IF d \in Attached(l) THEN Losetup_d(l, d, refused) ELSE l
    IN  IF kpfails THEN l
        ELSE IF d \in Attached(l1) THEN l1
        ELSE [l1 EXCEPT !.nodes = @ \ {d}]

\* LoopDevice.close, run by atexit for one instance.
LoopClose(p) ==
    /\ lp.pc[p] = "exiting" /\ lp.created[p] # <<>>
    /\ LET n == Len(lp.created[p])
           d == lp.created[p][n]
       IN  \E kpfails \in BOOLEAN, refused \in BOOLEAN :
             lp' = [LoopDevice_cleanup(lp, d, kpfails, refused)
                       EXCEPT !.created[p] = SubSeq(@, 1, n - 1)]
    /\ UNCHANGED OthersThanLoop

\* The process has ended; another process of the host takes its place.
LoopExited(p) ==
    /\ lp.pc[p] = "exiting" /\ lp.created[p] = <<>>
    /\ lp' = Goto(lp, p, "idle")
    /\ UNCHANGED OthersThanLoop

NextLoop ==
    \E p \in Procs :
        \/ LoopCall(p) \/ LoopOpen(p) \/ LoopFlock(p) \/ LoopGenloopid(p)
        \/ LoopExists(p) \/ LoopLoseek(p) \/ LoopMknod(p) \/ LoopFallback(p)
        \/ LoopUnlock(p) \/ LoopUnlink(p) \/ LoopAttach(p) \/ LoopRelease(p)
        \/ LoopExit(p) \/ LoopClose(p) \/ LoopExited(p)

(***************************************************************************)
(*            Part C: the ext minimal-size search and resparse()           *)
(***************************************************************************)

\* The largest filesystem size the search is started on (abstract units).
MaxTop == 9

\* The largest declared disk size of the mount that is resparsed.
MaxSize == 3

\* The most resize attempts of one search that are followed.
MaxAttempts == 6

\* The size the search starts from taken from the disk, not the filesystem.
Get_size_from_disk(s) == s.size

\* ExtDiskMount.__get_size_from_filesystem: Block count x blocksize.
Get_size_from_filesystem(s) == s.fsSize

\* t = bot + ((top - bot) / 2), a true division: twice t, to keep it exact.
Midpoint2(bot, top) == 2 * bot + (top - bot)

\* int(t), t given as twice its value.
IntOfHalves(t2) == t2 \div 2

\* The loop body with its two branches exchanged.
Search_update_swapped(s, t2) ==
    IF s.rc = 0 THEN [s EXCEPT !.bot = IntOfHalves(t2)]
    ELSE [s EXCEPT !.top = IntOfHalves(t2)]

\* The loop body after the resize attempt: `if not resize2fs(...)` moves top
\* down to int(t), otherwise bot moves up to int(t).
Search_update(s, t2) ==
    IF s.rc = 0 THEN [s EXCEPT !.top = IntOfHalves(t2)]
    ELSE [s EXCEPT !.bot = IntOfHalves(t2)]

\* The loop condition of __resize_to_minimal.
Search_continues(s) == s.top # s.bot + 1

\* ExtDiskMount.__resize_to_minimal up to the loop: fsck, bot = 0, top = the
\* filesystem's size.
Resize_to_minimal_begin(s) ==
    IF ~Ok(s) THEN s
    ELSE LET f == Issue(s, "fsck", 0)
         IN  [f EXCEPT !.bot = 0, !.top = Get_size_from_filesystem(f),
                       !.top0 = Get_size_from_filesystem(f), !.attempts = 0,
                       !.faithful = TRUE, !.pc = "search"]

\* VfatDiskMount / BtrfsDiskMount.__resize_to_minimal: fsck, and the
\* disk's declared size is the answer.
Resize_to_minimal_declared(s) ==
    IF ~Ok(s) THEN s
    ELSE [Issue(s, "fsck", 0) EXCEPT !.minsize = s.size, !.pc = "minimal"]

\* resparse() that goes to work on the filesystem without cleanup().
Resparse_begin_mounted(s, arg) ==
    LET c == [s EXCEPT !.arg = arg, !.len0 = s.fileLen]
    IN  IF c.variant # "ext" THEN Resize_to_minimal_declared(c)
        ELSE IF arg = 0
        THEN LET r == Resize_filesystem([c EXCEPT !.minsize = 0], arg)
             IN  [r EXCEPT !.pc = IF Ok(r) THEN "done" ELSE "raised"]
        ELSE Resize_to_minimal_begin(c)

\* ExtDiskMount / VfatDiskMount / BtrfsDiskMount.resparse up to the
\* minimal size: cleanup(), then __resize_to_minimal; the ext variant does
\* nothing but __resize_filesystem(0) for size == 0.
Resparse_begin(s, arg) ==
    LET c == Cleanup_call([s EXCEPT !.arg = arg, !.len0 = s.fileLen])
    IN  IF ~Ok(c) THEN [c EXCEPT !.pc = "raised"]
        ELSE IF c.variant # "ext" THEN Resize_to_minimal_declared(c)
        ELSE IF arg = 0
        THEN LET r == Resize_filesystem([c EXCEPT !.minsize = 0], arg)
             IN  [r EXCEPT !.pc = IF Ok(r) THEN "done" ELSE "raised"]
        ELSE Resize_to_minimal_begin(c)

\* resparse() after __resize_to_minimal returned minsize:
\* disk.truncate(minsize), then __resize_filesystem(size).
Resparse_end(s) ==
    LET r == Resize_filesystem(SparseLoopbackDisk_truncate(s, s.minsize), s.arg)
    IN  [r EXCEPT !.pc = IF Ok(r) THEN "done" ELSE "raised"]

\* The fields of the search, before resparse() is called.
SearchIdle == [pc |-> "idle", arg |-> None, len0 |-> 0, minsize |-> 0,
               bot |-> 0, top |-> 0, top0 |-> 0, attempts |-> 0, faithful |-> TRUE]

\* An ExtDiskMount on a SparseLoopbackDisk of declared size `size`, whose
\* image file has the length len and holds a filesystem of size fs with
\* data that needs m.
ExtMount(size, len, fs, m, isMounted) ==
    [variant |-> "ext", kind |-> "sparse", skipformat |-> FALSE,
     rmmountdir |-> TRUE, size |-> size,
     mounted |-> isMounted, rmdir |-> FALSE, madeDir |-> FALSE, device |-> isMounted,
     subvolumesNone |-> FALSE, subvolumes |-> <<>>, snapshots |-> 0, snapped |-> FALSE,
     dirExists |-> TRUE, osMounted |-> isMounted,
     fileExists |-> TRUE, fileLen |-> len, metadata |-> FALSE,
     fsSize |-> fs, minData |-> m, rc |-> 0,
     call |-> NoCall, log |-> <<>>, raised |-> "none", failAt |-> 0]

\* The record r with the fields of f added.
Extend(r, f) ==
    [k \in DOMAIN r \cup DOMAIN f |-> IF k \in DOMAIN f THEN f[k] ELSE r[k]]

\* A mount ready to be resparsed: the image is at least as long as the
\* disk's declared size, the filesystem fits the image, the data fits the
\* filesystem.
InitResparse ==
    \E size \in 1..MaxSize, isMounted \in BOOLEAN, variant \in {"ext", "vfat", "btrfs"} :
      \E len \in size..(size + 1) :
        \E fs \in 1..len :
          \E m \in 1..fs :
            rs = Extend([ExtMount(size, len, fs, m, isMounted) EXCEPT !.variant = variant],
                        SearchIdle)

\* The search of __resize_to_minimal entered with top = top0 on a
\* filesystem whose data needs m.
InitSearch ==
    \E top0 \in 0..MaxTop, m \in 1..MaxTop :
        rs = Extend(ExtMount(Max(top0, 1), Max(top0, 1), top0, m, FALSE),
                    [SearchIdle EXCEPT !.pc = "search", !.top = top0, !.top0 = top0])

\* A caller calls resparse(arg).
Resparse ==
    /\ rs.pc = "idle"
    /\ \E arg \in {None} \cup 0..(MaxSize + 1), f \in 0..MaxFailAt :
          rs' = Leave(Resparse_begin(Enter(rs, "resparse", f), arg))
    /\ UNCHANGED OthersThanResparse

\* One iteration of the loop of __resize_to_minimal: a resize attempt at
\* the midpoint, which the tool accepts or refuses.
SearchTry ==
    /\ rs.pc = "search" /\ Search_continues(rs) /\ rs.attempts < MaxAttempts
    /\ \E toolFails \in BOOLEAN :
          LET t2 == Midpoint2(rs.bot, rs.top)
              r  == resize2fs([rs EXCEPT !.failAt =
                                   IF toolFails THEN Len(rs.log) + 1 ELSE 0], t2)
          IN  rs' = [Leave(Search_update(r, t2)) EXCEPT
                        !.attempts = @ + 1,
                        !.faithful = @ /\ ((r.rc = 0) <=> (t2 >= 2 * rs.minData))]
    /\ UNCHANGED OthersThanResparse

\* The loop of __resize_to_minimal ends: `return top`.
SearchReturn ==
    /\ rs.pc = "search" /\ ~Search_continues(rs)
    /\ rs' = [rs EXCEPT !.minsize = rs.top, !.pc = "minimal"]
    /\ UNCHANGED OthersThanResparse

\* resparse() goes on with the minimal size the search returned.
ResparseFinish ==
    /\ rs.pc = "minimal"
    /\ \E k \in 0..MaxFailAt :
          rs' = Leave(Resparse_end(
                    [rs EXCEPT !.failAt = IF k = 0 THEN 0 ELSE Len(rs.log) + k]))
    /\ UNCHANGED OthersThanResparse

NextSearch == SearchTry \/ SearchReturn

NextResparse == Resparse \/ SearchTry \/ SearchReturn \/ ResparseFinish

\* ---- the specifications ---------------------------------------------------

(***************************************************************************)
(*        Part D: the bind mounts of a chroot environment (chroot.py)      *)
(***************************************************************************)

\* The most bind mounts get_bind_mounts puts in its list.
MaxBinds == 5

\* Who else has <chrootdir>/.chroot.lock open while a call runs: nobody, a
\* process whose command line is "/bin/bash", or any other process.
HolderKinds == {"none", "bash", "other"}

Reverse(q) == [i \in 1..Len(q) |-> q[Len(q) + 1 - i]]

\* my_fuser(fp): False when the file does not exist or `fuser -s` finds no
\* process; True only when a process that has it open has the command line
\* "/bin/bash".
My_fuser(exists, holder) ==
    IF ~exists THEN FALSE
    ELSE IF holder = "none" THEN FALSE
    ELSE holder = "bash"

\* BindChrootMount.has_chroot_instance: my_fuser(<root>/.chroot.lock)
Has_chroot_instance(s) == My_fuser(s.lockExists, s.call.holder)

\* BindChrootMount.__init__: the "/" -> /parentroot bind and the
\* /lib/modules binds after it are made with option "ro".
BindOption(s, b) == b >= s.pr

\* BindChrootMount.mount
BindChrootMount_mount(s, b) ==
    IF ~Ok(s) \/ s.mounted[b] \/ s.os[b] THEN s
    ELSE LET d == [s EXCEPT !.prDir = @ \/ (b = s.pr)]
             a == Issue(d, "mount --bind", b)
         IN  IF Failed(a) THEN Raise(a, "MountError")
             ELSE LET m == [a EXCEPT !.os[b] = TRUE]
                      r == Issue(m, "remount", b)
                  IN  IF ~BindOption(s, b) THEN [m EXCEPT !.mounted[b] = TRUE]
                      ELSE IF Failed(r) THEN Raise(r, "MountError")
                      ELSE [r EXCEPT !.mounted[b] = TRUE]

\* BindChrootMount.unmount: nothing while a chroot instance holds the lock;
\* otherwise `umount -l` if /proc/mounts lists the target, its exit status
\* not looked at.
BindChrootMount_unmount(s, b) ==
    IF ~Ok(s) \/ Has_chroot_instance(s) THEN s
    ELSE LET a == Issue(s, "umount -l", b)
             u == IF s.os[b] THEN [a EXCEPT !.os[b] = Failed(a)] ELSE s
         IN  [u EXCEPT !.mounted[b] = FALSE]

\* setup_chrootenv.bind_mount: b.mount() for the list from its k-th entry on.
RECURSIVE Bind_mount(_, _)
Bind_mount(s, k) ==
    IF ~Ok(s) \/ k > Len(s.list) THEN s
    ELSE Bind_mount(BindChrootMount_mount(s, s.list[k]), k + 1)

\* The list walked as it stands.
Bind_unmount_order_kept(list) == list

\* The order in which bind_unmount walks the list: chrootmounts.reverse().
Bind_unmount_order(list) == Reverse(list)

\* cleanup_chrootenv.bind_unmount from the k-th entry of the list on.
RECURSIVE Bind_unmount_each(_, _)
Bind_unmount_each(s, k) ==
    IF ~Ok(s) \/ k > Len(s.list) THEN s
    ELSE Bind_unmount_each(BindChrootMount_unmount(s, s.list[k]), k + 1)

\* cleanup_chrootenv.bind_unmount: the list is reversed in place, then walked.
Bind_unmount(s) ==
    Bind_unmount_each([s EXCEPT !.list = Bind_unmount_order(@)], 1)

\* setup_chrootenv: a new list of new BindChrootMount objects, bind_mount,
\* setup_resolv, then the lock file is opened.
Setup_chrootenv(s) ==
    LET g == [s EXCEPT !.list = [i \in 1..s.n |-> i],
                       !.mounted = [i \in 1..s.n |-> FALSE]]
        m == Bind_mount(g, 1)
    IN  IF ~Ok(m) THEN m
        ELSE [m EXCEPT !.lockExists = TRUE, !.lockfd = "open", !.fresh = TRUE]

\* cleanup_chrootenv: close the lock, bind_unmount, and unless my_fuser
\* finds a chroot instance: remove /parentroot if it lists empty, blank
\* resolv.conf, kill the processes rooted in the chroot.
Cleanup_chrootenv(s) ==
    IF ~Ok(s) THEN s
    ELSE IF s.lockfd = "unset" THEN Raise(s, "AttributeError")
    ELSE LET u == Bind_unmount([s EXCEPT !.lockfd = "closed", !.fresh = FALSE])
         IN  IF My_fuser(u.lockExists, u.call.holder) THEN u
             ELSE IF ~u.prDir THEN Raise(u, "FileNotFoundError")
             ELSE [u EXCEPT !.prDir = u.os[u.pr],
                            !.resolvBlanked = TRUE, !.killed = TRUE]

\* chroot(): try: setup_chrootenv, the shell; except OSError: CreatorError;
\* finally: cleanup_chrootenv(chrootdir, bindmounts, globalmounts), where
\* globalmounts has no value when setup_chrootenv raised.
Chroot_call(s, shell) ==
    LET e == Setup_chrootenv(s)
    IN  IF ~Ok(e)
        THEN [e EXCEPT !.raised = "UnboundLocalError", !.call.setupRaised = e.raised]
        ELSE LET c == Cleanup_chrootenv(e)
             IN  IF ~Ok(c) THEN c
                 ELSE IF shell = "OSError" THEN Raise(c, "CreatorError")
                 ELSE IF shell = "ok" THEN c
                 ELSE Raise(c, shell)

\* How the command run inside the chroot ends.
ShellOutcomes == {"ok", "OSError", "KeyboardInterrupt"}

NoChrootCall ==
    [op |-> "none", holder |-> "none", preOs |-> <<>>, prePrDir |-> FALSE,
     preLockfd |-> "unset", preFresh |-> FALSE, setupRaised |-> "none"]

\* The module as imported (chroot_lockfd = -1) and the chroot directory as
\* a first call finds it: one of the targets may be mounted already, and
\* the "/" -> /parentroot bind is followed by at most one /lib/modules bind.
InitChroot ==
    \E n \in 1..MaxBinds :
      \E pr \in {n - 1, n} \cap 1..n, already \in 0..n, prDir \in BOOLEAN :
        /\ already = pr => prDir
        /\ ch = [n |-> n, pr |-> pr, list |-> <<>>,
                 mounted |-> [i \in 1..n |-> FALSE],
                 os |-> [i \in 1..n |-> i = already],
                 prDir |-> prDir, lockExists |-> FALSE, lockfd |-> "unset",
                 fresh |-> FALSE, resolvBlanked |-> FALSE, killed |-> FALSE,
                 call |-> NoChrootCall, log |-> <<>>, raised |-> "none", failAt |-> 0]

\* The state as a call finds it.  A process that holds the lock file open
\* has created it.
EnterChroot(s, op, f, h) ==
    [s EXCEPT !.call = [op |-> op, holder |-> h, preOs |-> s.os,
                        prePrDir |-> s.prDir, preLockfd |-> s.lockfd,
                        preFresh |-> s.fresh, setupRaised |-> "none"],
              !.lockExists = @ \/ h # "none",
              !.resolvBlanked = FALSE, !.killed = FALSE,
              !.log = <<>>, !.raised = "none", !.failAt = f]

\* The most commands one call of Part D issues on n binds: a mount and a
\* remount each, then an umount each.
MaxChrootCmds(n) == 3 * n

\* setup_chrootenv is called; a caller keeps the list only if it returned.
SetupChrootenv ==
    /\ \E f \in 0..MaxChrootCmds(ch.n), h \in HolderKinds :
         LET r == Setup_chrootenv(EnterChroot(ch, "setup", f, h))
         IN  ch' = Leave(IF Ok(r) THEN r ELSE [r EXCEPT !.list = <<>>])
    /\ UNCHANGED OthersThanChroot

\* cleanup_chrootenv is called with the list the caller has.
CleanupChrootenv ==
    /\ \E f \in 0..MaxChrootCmds(ch.n), h \in HolderKinds :
         ch' = Leave(Cleanup_chrootenv(EnterChroot(ch, "cleanup", f, h)))
    /\ UNCHANGED OthersThanChroot

\* chroot() is called, by a process that set no environment up itself; at
\* most one thing goes wrong in it, a command or the shell.  Its list is
\* gone when it returns.
Chroot ==
    /\ ch.list = <<>>
    /\ \E f \in 0..MaxChrootCmds(ch.n), h \in HolderKinds, shell \in ShellOutcomes :
         /\ f # 0 => shell = "ok"
         /\ ch' = [Leave(Chroot_call(EnterChroot(ch, "chroot", f, h), shell))
                      EXCEPT !.list = <<>>]
    /\ UNCHANGED OthersThanChroot

NextChroot == SetupChrootenv \/ CleanupChrootenv \/ Chroot

(***************************************************************************)
(*     Part D, continued: the bind mounts of a BaseImageCreator            *)
(***************************************************************************)

\* BaseImageCreator.mount binds /sys, /proc, /proc/sys/fs/binfmt_misc and
\* /dev/pts, in this order, none with an option.
NSysBinds == 4

\* BaseImageCreator._do_bindmounts: b.mount() for every b of __bindmounts.
Do_bindmounts(s) == Bind_mount(s, 1)

\* BaseImageCreator._undo_bindmounts: self.__bindmounts.reverse(), then
\* b.unmount() for every b.
Undo_bindmounts(s) == Bind_unmount_each([s EXCEPT !.list = Reverse(@)], 1)

\* The most loop images a LoopImageCreator builds.
MaxLoops == 2

\* The most commands one mount() or one unmount() of a creator issues: two
\* per loop image and one per bind.
MaxBuildCmds(s) == 2 * Len(s.loops) + NSysBinds

\* LoopImageCreator._mount_instroot, the loop over self._instloops from the
\* i-th on: a new DiskMount on a new SparseLoopbackDisk, and its mount().
RECURSIVE Mount_instroot(_, _)
Mount_instroot(s, i) ==
    IF ~Ok(s) \/ i > Len(s.loops) THEN s
    ELSE LET a == Issue(s, "losetup loop", i)
         IN  IF Failed(a) THEN Raise(a, "MountError")
             ELSE LET b == Issue([a EXCEPT !.loops[i].device = TRUE], "mount loop", i)
                  IN  IF Failed(b) THEN Raise(b, "MountError")
                      ELSE Mount_instroot([b EXCEPT !.loops[i].mounted = TRUE], i + 1)

\* LoopImageCreator._unmount_instroot, `for item in reversed(self._instloops)`
\* from the i-th down: loop.cleanup(), which is unmount() (MountError when
\* `umount -l` fails) and then disk.cleanup().
RECURSIVE Unmount_instroot(_, _)
Unmount_instroot(s, i) ==
    IF ~Ok(s) \/ i < 1 THEN s
    ELSE LET u == IF s.loops[i].mounted
                  THEN LET a == Issue(s, "umount -l loop", i)
                       IN  IF Failed(a) \/ s.busy = i THEN Raise(a, "MountError")
                           ELSE [a EXCEPT !.loops[i].mounted = FALSE]
                  ELSE s
             d == IF Ok(u) /\ u.loops[i].device
                  THEN [Issue(u, "losetup -d loop", i) EXCEPT !.loops[i].device = FALSE]
                  ELSE u
         IN  Unmount_instroot(d, i - 1)

\* BaseImageCreator.mount: __ensure_builddir, _mount_instroot, then the four
\* BindChrootMount objects are appended to __bindmounts, then _do_bindmounts.
Img_mount(s) ==
    LET m == Mount_instroot([s EXCEPT !.builddir = TRUE], 1)
    IN  IF ~Ok(m) THEN m
        ELSE Do_bindmounts([m EXCEPT !.list = @ \o [i \in 1..NSysBinds |-> i]])

\* BaseImageCreator.unmount: _undo_bindmounts, then _unmount_instroot.
Img_unmount(s) ==
    LET u == Undo_bindmounts(s)
    IN  Unmount_instroot(u, Len(u.loops))

\* BaseImageCreator.cleanup: nothing without a build directory, otherwise
\* unmount() and the build directory is removed.
Img_cleanup(s) ==
    IF ~s.builddir THEN s
    ELSE LET u == Img_unmount(s)
         IN  IF Ok(u) THEN [u EXCEPT !.builddir = FALSE] ELSE u

\* The steps of do_create other than mount() and unmount() that can raise.
BuildStages == {"check_depend_tools", "install", "configure", "copy_kernel", "package"}

\* LoopPlugin.do_create: the try block up to the step that raises, if one
\* does, then `finally: creator.cleanup()`; an error of cleanup() replaces
\* the one in flight.
Do_create(s, stage) ==
    LET RaiseAt(x, stages) ==
            IF Ok(x) /\ stage \in stages THEN Raise(x, "CreatorError") ELSE x
        c == RaiseAt(s, {"check_depend_tools"})
        m == IF Ok(c) THEN Img_mount(c) ELSE c
        i == RaiseAt(m, {"install", "configure", "copy_kernel"})
        u == IF Ok(i) THEN Img_unmount(i) ELSE i
        p == RaiseAt(u, {"package"})
        f == Img_cleanup([p EXCEPT !.raised = "none", !.cleanedDir = p.builddir])
    IN  IF Ok(f) THEN [f EXCEPT !.raised = p.raised] ELSE f

\* A BaseImageCreator before mount(): __bindmounts = [], no build
\* directory, its loop images not mounted, and one of the four bind targets
\* may be mounted already.
InitBind ==
    \E already \in 0..NSysBinds, nl \in 1..MaxLoops :
        ch = [loops |-> [i \in 1..nl |-> [mounted |-> FALSE, device |-> FALSE]],
              busy |-> 0, cleanedDir |-> FALSE,
              n |-> NSysBinds, pr |-> NSysBinds + 1, list |-> <<>>,
              mounted |-> [i \in 1..NSysBinds |-> FALSE],
              os |-> [i \in 1..NSysBinds |-> i = already],
              prDir |-> FALSE, lockExists |-> FALSE, lockfd |-> "unset",
              fresh |-> FALSE, resolvBlanked |-> FALSE, killed |-> FALSE,
              builddir |-> FALSE,
              call |-> NoChrootCall, log |-> <<>>, raised |-> "none", failAt |-> 0]

\* A call of the creator begins: the loop image whose `umount -l` fails
\* for as long as the call lasts (0: none) is chosen with the rest.
EnterBuild(s, op, f, h, busy) ==
    [EnterChroot(s, op, f, h) EXCEPT !.busy = busy, !.cleanedDir = FALSE]

\* mount() is called, once per creator.
ImgMount ==
    /\ ch.list = <<>>
    /\ \E f \in 0..MaxBuildCmds(ch), h \in HolderKinds :
         ch' = Leave(Img_mount(EnterBuild(ch, "mount", f, h, 0)))
    /\ UNCHANGED OthersThanChroot

\* A subclass calls _do_bindmounts.
DoBindmounts ==
    /\ ch.list # <<>> /\ ch.call.op # "do_create"
    /\ \E f \in 0..NSysBinds, h \in HolderKinds :
         ch' = Leave(Do_bindmounts(EnterBuild(ch, "do", f, h, 0)))
    /\ UNCHANGED OthersThanChroot

\* A subclass calls _undo_bindmounts.
UndoBindmounts ==
    /\ ch.list # <<>> /\ ch.call.op # "do_create"
    /\ \E f \in 0..NSysBinds, h \in HolderKinds :
         ch' = Leave(Undo_bindmounts(EnterBuild(ch, "undo", f, h, 0)))
    /\ UNCHANGED OthersThanChroot

\* unmount() is called.
ImgUnmount ==
    /\ ch.call.op # "do_create"
    /\ \E f \in 0..MaxBuildCmds(ch), h \in HolderKinds :
         ch' = Leave(Img_unmount(EnterBuild(ch, "unmount", f, h, 0)))
    /\ UNCHANGED OthersThanChroot

\* cleanup() is called.
ImgCleanup ==
    /\ ch.call.op # "do_create"
    /\ \E f \in 0..MaxBuildCmds(ch), h \in HolderKinds :
         ch' = Leave(Img_cleanup(EnterBuild(ch, "imgcleanup", f, h, 0)))
    /\ UNCHANGED OthersThanChroot

\* `mic create loop` runs do_create on a new creator, which nothing uses
\* afterwards.
DoCreate ==
    /\ ch.list = <<>> /\ ~ch.builddir
    /\ \E f \in 0..(2 * MaxBuildCmds(ch)), h \in HolderKinds, busy \in 0..Len(ch.loops),
          stage \in BuildStages \cup {"none"} :
         ch' = Leave(Do_create(EnterBuild(ch, "do_create", f, h, busy), stage))
    /\ UNCHANGED OthersThanChroot

NextBind ==
    ImgMount \/ DoBindmounts \/ UndoBindmounts \/ ImgUnmount \/ ImgCleanup \/ DoCreate

(***************************************************************************)
(*     Part E: DeviceMapperSnapshot and create_image_minimizer             *)
(***************************************************************************)

\* The size create_image_minimizer declares for the COW file (64 MiB), in
\* units of this model.
CowSize == 3

\* The commands and system calls create_image_minimizer can issue.
MaxSnapCmds == 13

\* What `dmsetup status` printed: a line whose fourth field is "C/D" with
\* C the sectors used, a line whose fourth field is not a number, or fewer
\* than four fields.
StatusOutputs ==
    [kind : {"number"}, used : 0..CowSize]
        \cup [kind : {"garbled", "short"}, used : {0}]

\* self.imgloop.create(): LoopbackDisk.create
Imgloop_create(s) ==
    IF s.imgDevice THEN s
    ELSE LET a == Issue(s, "get_loop_device", 1)
         IN  IF Failed(a) THEN Raise(a, "MountError")
             ELSE [a EXCEPT !.imgDevice = TRUE, !.imgBound = TRUE]

\* self.cowloop.create(): SparseLoopbackDisk.create, expand(create = True)
\* then LoopbackDisk.create
Cowloop_create(s) ==
    LET e == Issue(s, "expand", CowSize)
    IN  IF Failed(e) THEN Raise(e, "OSError")
        ELSE LET x == [e EXCEPT !.cowFile = Max(@, CowSize)]
             IN  IF x.cowDevice THEN x
                 ELSE LET a == Issue(x, "get_loop_device", 2)
                      IN  IF Failed(a) THEN Raise(a, "MountError")
                          ELSE [a EXCEPT !.cowDevice = TRUE, !.cowBound = TRUE]

\* self.imgloop.cleanup(): LoopbackDisk.cleanup, the status of `losetup -d`
\* ignored.
Imgloop_cleanup(s) ==
    IF ~s.imgDevice THEN s
    ELSE LET a == Issue(s, "losetup -d", 1)
         IN  [a EXCEPT !.imgDevice = FALSE,
                       !.imgBound = IF Failed(a) THEN @ ELSE FALSE]

\* self.cowloop.cleanup()
Cowloop_cleanup(s) ==
    IF ~s.cowDevice THEN s
    ELSE LET a == Issue(s, "losetup -d", 2)
         IN  [a EXCEPT !.cowDevice = FALSE,
                       !.cowBound = IF Failed(a) THEN @ ELSE FALSE]

\* DeviceMapperSnapshot.create
DeviceMapperSnapshot_create(s) ==
    IF s.created THEN s
    ELSE LET a == Imgloop_create(s)
         IN  IF ~Ok(a) THEN a
             ELSE LET b == Cowloop_create(a)
                  IN  IF ~Ok(b) THEN b
                      ELSE LET c == Issue([b EXCEPT !.name = TRUE], "stat", 1)
                           IN  IF Failed(c) THEN Raise(c, "OSError")
                               ELSE LET d == Issue(c, "dmsetup create", 0)
                                    IN  IF Failed(d)
                                        THEN Raise(Imgloop_cleanup(Cowloop_cleanup(d)),
                                                   "SnapshotError")
                                        ELSE [d EXCEPT !.created = TRUE,
                                                       !.dmActive = TRUE]

\* DeviceMapperSnapshot.remove(ignore_errors)
DeviceMapperSnapshot_remove(s, ignore_errors) ==
    IF ~s.created THEN s
    ELSE LET a == Issue(s, "dmsetup remove", 0)
         IN  IF ~ignore_errors /\ Failed(a) THEN Raise(a, "SnapshotError")
             ELSE Imgloop_cleanup(Cowloop_cleanup(
                      [a EXCEPT !.name = FALSE, !.created = FALSE,
                                !.dmActive = IF Failed(a) THEN @ ELSE FALSE]))

\* DeviceMapperSnapshot.get_cow_used: int(out.split()[3].split('/')[0]) * 512;
\* a command that failed printed no status line.
DeviceMapperSnapshot_get_cow_used(s, out) ==
    IF ~s.created THEN [s EXCEPT !.cowUsed = 0]
    ELSE LET a == Issue(s, "dmsetup status", 0)
             kind == IF Failed(a) /\ out.kind = "number" THEN "short" ELSE out.kind
         IN  CASE kind = "short"   -> Raise(a, "IndexError")
               [] kind = "garbled" -> Raise(a, "SnapshotError")
               [] OTHER            -> [a EXCEPT !.cowUsed = out.used]

\* create_image_minimizer, the try block: snapshot.create(), resize2fs (its
\* status dropped), snapshot.get_cow_used().
Minimizer_try(s, minimal_size, out) ==
    LET c == DeviceMapperSnapshot_create(s)
    IN  IF ~Ok(c) THEN c
        ELSE DeviceMapperSnapshot_get_cow_used(
                 Issue([c EXCEPT !.call.snapCreated = TRUE],
                       IF minimal_size = 0 THEN "resize2fs -M" ELSE "resize2fs",
                       minimal_size),
                 out)

\* create_image_minimizer, the finally clause:
\* snapshot.remove(ignore_errors = (not sys.exc_info()[0] is None)); an
\* error of remove replaces the one in flight.
Minimizer_finally(s) ==
    LET r == DeviceMapperSnapshot_remove([s EXCEPT !.raised = "none"], ~Ok(s))
    IN  IF Ok(r) THEN [r EXCEPT !.raised = s.raised] ELSE r

\* create_image_minimizer, after the try statement: cowloop.truncate(cow_used),
\* mksquashfs(cowloop.lofile, path), os.unlink(cowloop.lofile).
Minimizer_pack(s) ==
    LET a == Issue(s, "truncate", s.cowUsed)
    IN  IF Failed(a) THEN Raise(a, "OSError")
        ELSE LET b == Issue([a EXCEPT !.cowFile = s.cowUsed], "mksquashfs", 0)
             IN  IF Failed(b) THEN Raise(b, "SquashfsError")
                 ELSE LET c == Issue([b EXCEPT !.squashed = TRUE], "unlink", 0)
                      IN  IF Failed(c) THEN Raise(c, "OSError")
                          ELSE [c EXCEPT !.cowFile = None]

\* create_image_minimizer: a new imgloop, cowloop and snapshot, the try
\* statement, then the packing of the COW file.
Create_image_minimizer(s, minimal_size, out) ==
    LET n == [s EXCEPT !.imgDevice = FALSE, !.cowDevice = FALSE,
                       !.imgBound = FALSE, !.cowBound = FALSE,
                       !.created = FALSE, !.name = FALSE, !.dmActive = FALSE,
                       !.squashed = FALSE]
        f == Minimizer_finally(Minimizer_try(n, minimal_size, out))
    IN  IF Ok(f) THEN Minimizer_pack(f) ELSE f

NoSnapshotCall == [op |-> "none", snapCreated |-> FALSE, failedCmd |-> "none"]

\* DeviceMapperSnapshot.__init__ on two loop disks that are not bound; the
\* COW file of an earlier run may be there.
InitSnapshot ==
    \E file \in {None, CowSize} :
        sn = [imgDevice |-> FALSE, cowDevice |-> FALSE,
              imgBound |-> FALSE, cowBound |-> FALSE,
              created |-> FALSE, name |-> FALSE, dmActive |-> FALSE,
              cowFile |-> file, cowUsed |-> 0, squashed |-> FALSE,
              call |-> NoSnapshotCall, log |-> <<>>, raised |-> "none",
              failAt |-> 0]

\* A call begins: the command that fails, if any, is chosen.
EnterSnapshot(s, op, f) ==
    [s EXCEPT !.call = [op |-> op, snapCreated |-> FALSE, failedCmd |-> "none"],
              !.log = <<>>, !.raised = "none", !.failAt = f]

\* A call returns or raises: the command that failed is on record.
LeaveSnapshot(s) ==
    [s EXCEPT !.call.failedCmd =
                  IF s.failAt \in 1..Len(s.log) THEN s.log[s.failAt].cmd ELSE "none",
              !.failAt = 0]

\* snapshot.create() is called.
SnapCreate ==
    /\ \E f \in 0..MaxSnapCmds :
         sn' = LeaveSnapshot(DeviceMapperSnapshot_create(EnterSnapshot(sn, "create", f)))
    /\ UNCHANGED OthersThanSnapshot

\* snapshot.remove(ignore_errors) is called.
SnapRemove ==
    /\ \E f \in 0..MaxSnapCmds, ignore_errors \in BOOLEAN :
         sn' = LeaveSnapshot(DeviceMapperSnapshot_remove(EnterSnapshot(sn, "remove", f),
                                                        ignore_errors))
    /\ UNCHANGED OthersThanSnapshot

\* snapshot.get_cow_used() is called.
SnapGetCowUsed ==
    /\ \E f \in 0..MaxSnapCmds, out \in StatusOutputs :
         sn' = LeaveSnapshot(DeviceMapperSnapshot_get_cow_used(
                                 EnterSnapshot(sn, "get_cow_used", f), out))
    /\ UNCHANGED OthersThanSnapshot

\* create_image_minimizer(path, image, minimal_size) is called.
CreateImageMinimizer ==
    /\ \E f \in 0..MaxSnapCmds, minimal_size \in 0..1, out \in StatusOutputs :
         sn' = LeaveSnapshot(Create_image_minimizer(
                                 EnterSnapshot(sn, "minimizer", f), minimal_size, out))
    /\ UNCHANGED OthersThanSnapshot

NextSnapshot == SnapCreate \/ SnapRemove \/ SnapGetCowUsed \/ CreateImageMinimizer

(***************************************************************************)
(*                 Part F: the filesystem label of a mount                 *)
(***************************************************************************)

\* A label is a head of at most two characters, each a letter or a slash,
\* followed by a tail of MaxLabelTail letters at most.
MaxLabelTail == 40

\* loop.py: FSLABEL_MAXLEN
FSLABEL_MAXLEN == 32

Labels ==
    [head : {<<>>} \cup [1..1 -> {"a", "/"}] \cup [1..2 -> {"a", "/"}],
     tail : 0..MaxLabelTail]

\* len(label)
LabelLen(l) == Len(l.head) + l.tail

\* label[:k]
LabelSlice(l, k) ==
    IF k <= Len(l.head) THEN [head |-> SubSeq(l.head, 1, k), tail |-> 0]
    ELSE [l EXCEPT !.tail = IF @ <= k - Len(l.head) THEN @ ELSE k - Len(l.head)]

\* label.replace("/", "")
LabelWithoutSlash(l) == [l EXCEPT !.head = SelectSeq(@, LAMBDA c : c # "/")]

\* ExtDiskMount / VfatDiskMount / BtrfsDiskMount.__init__:
\* self.fslabel = fslabel.replace("/", ""), the same line in the three.
DiskMount_fslabel(variant, fslabel) == LabelWithoutSlash(fslabel)

\* LoopImageCreator.__set_fslabel: val[:FSLABEL_MAXLEN]
LoopImageCreator_set_fslabel(val) == LabelSlice(val, FSLABEL_MAXLEN)

\* No mount constructed and no label assigned yet.
InitLabel ==
    dm = [op |-> "none", variant |-> "none",
          supplied |-> [head |-> <<>>, tail |-> 0],
          fslabel |-> [head |-> <<>>, tail |-> 0]]

\* An ext, vfat or btrfs mount is constructed with a label.
NewDiskMount ==
    /\ \E variant \in {"ext", "vfat", "btrfs"}, label \in Labels :
         dm' = [op |-> "mount", variant |-> variant, supplied |-> label,
                fslabel |-> DiskMount_fslabel(variant, label)]
    /\ UNCHANGED OthersThanMount

\* creator.fslabel = val on a LoopImageCreator.
SetFslabel ==
    /\ \E val \in Labels :
         dm' = [op |-> "creator", variant |-> "none", supplied |-> val,
                fslabel |-> LoopImageCreator_set_fslabel(val)]
    /\ UNCHANGED OthersThanMount

NextLabel == NewDiskMount \/ SetFslabel

(***************************************************************************)
(*        Part G: a PartitionedMount as the imager plugins use it          *)
(***************************************************************************)

\* The most partitions added to one PartitionedMount.
MaxParts == 4

\* PartitionedMount.add_partition: one more partition entry, not mounted.
Add_partition(s, fstype) ==
    [s EXCEPT !.parts = Append(@, [fstype |-> fstype, mounted |-> FALSE])]

\* PartitionedMount.mount, the partitions from the i-th on, in mount order:
\* the first mount that fails raises MountError.
RECURSIVE Mount_partitions(_, _)
Mount_partitions(s, i) ==
    IF ~Ok(s) \/ i > Len(s.parts) THEN s
    ELSE IF s.parts[i].mounted THEN Mount_partitions(s, i + 1)
    ELSE LET a == Issue(s, "mount", i)
         IN  IF Failed(a) THEN Raise(a, "MountError")
             ELSE Mount_partitions([a EXCEPT !.parts[i].mounted = TRUE], i + 1)

\* PartitionedMount.mount: the backing disk is created, its partitions are
\* mapped to device nodes, then each partition is mounted.
PartitionedMount_mount(s) ==
    LET d == IF s.device THEN s
             ELSE LET a == Issue(s, "losetup", 0)
                  IN  IF Failed(a) THEN Raise(a, "MountError")
                      ELSE [a EXCEPT !.device = TRUE]
        m == IF ~Ok(d) \/ d.mapped THEN d
             ELSE LET a == Issue(d, "kpartx -a", 0)
                  IN  IF Failed(a) THEN Raise(a, "MountError")
                      ELSE [a EXCEPT !.mapped = TRUE]
    IN  Mount_partitions(m, 1)

\* PartitionedMount.cleanup, the partitions from the i-th down: each mounted
\* partition is unmounted, an umount that fails is not raised.
RECURSIVE Unmount_partitions(_, _)
Unmount_partitions(s, i) ==
    IF i < 1 THEN s
    ELSE IF ~s.parts[i].mounted THEN Unmount_partitions(s, i - 1)
    ELSE LET a == Issue(s, "umount", i)
         IN  Unmount_partitions([a EXCEPT !.parts[i].mounted = Failed(a)], i - 1)

\* PartitionedMount.cleanup: unmount in the reverse of the mount order, then
\* unmap the partitions and release the disk.
PartitionedMount_cleanup(s) ==
    LET u == Unmount_partitions(s, Len(s.parts))
        k == IF u.mapped THEN [Issue(u, "kpartx -d", 0) EXCEPT !.mapped = FALSE] ELSE u
    IN  IF k.device THEN [Issue(k, "losetup -d", 0) EXCEPT !.device = FALSE] ELSE k

\* The plugins' call with the except clause doing nothing but `raise`.
Mount_or_cleanup_bare(s) == PartitionedMount_mount(s)

\* RawPlugin.do_chroot / do_unpack, LiveUSBPlugin.do_unpack:
\*   try: imgloop.mount()
\*   except errors.MountError: imgloop.cleanup(); raise
Mount_or_cleanup(s) ==
    LET m == PartitionedMount_mount(s)
    IN  IF m.raised = "MountError"
        THEN [PartitionedMount_cleanup([m EXCEPT !.raised = "none"])
                 EXCEPT !.raised = "MountError"]
        ELSE m

\* PartitionedMount({'/dev/sdb': disk}, imgmnt, skipformat = True): no
\* partition yet, the disk not created.
InitPartition ==
    dm = [parts |-> <<>>, device |-> FALSE, mapped |-> FALSE, op |-> "none",
          log |-> <<>>, raised |-> "none", failAt |-> 0]

\* The plugin adds a partition it found in the image's partition table.
AddPartition ==
    /\ dm.op \in {"none", "add_partition"} /\ Len(dm.parts) < MaxParts
    /\ \E fstype \in {"ext3", "vfat"} :
         dm' = [Add_partition(dm, fstype) EXCEPT !.op = "add_partition"]
    /\ UNCHANGED OthersThanMount

\* The plugin mounts the image: imgloop.mount() inside its try statement.
MountPartitions ==
    /\ dm.op = "add_partition"
    /\ \E f \in 0..(Len(dm.parts) + 2) :
         dm' = Leave(Mount_or_cleanup(
                   [dm EXCEPT !.op = "mount", !.log = <<>>, !.raised = "none",
                              !.failAt = f]))
    /\ UNCHANGED OthersThanMount

\* The plugin is done with the image: imgloop.cleanup().
CleanupPartitions ==
    /\ dm.op = "mount" /\ dm.raised = "none"
    /\ \E f \in 0..(Len(dm.parts) + 2) :
         dm' = Leave(PartitionedMount_cleanup(
                   [dm EXCEPT !.op = "cleanup", !.log = <<>>, !.raised = "none",
                              !.failAt = f]))
    /\ UNCHANGED OthersThanMount

NextPartition == AddPartition \/ MountPartitions \/ CleanupPartitions

(***************************************************************************)
(*          Part H: kill_processes, one process entry per step             *)
(***************************************************************************)

\* The processes of the host that kill_processes may find: 1..NKillProcs.
NKillProcs == 2

KillProcs == 1..NKillProcs

SIGTERM == 15
SIGKILL == 9

\* glob.glob("/proc/*/root"): one entry for every process that is alive.
Glob_proc_root(k) ==
    SelectSeq([i \in KillProcs |-> i], LAMBDA p : k.proc[p] # "gone")

\* The except clauses giving the pass up at the first failure.
Kill_entry_abort(k, p, sig, fails) ==
    LET rest == Tail(k.snap)
    IN  IF k.proc[p] = "gone" THEN [k EXCEPT !.snap = rest]
        ELSE IF k.proc[p] # "chrooted" THEN [k EXCEPT !.snap = rest]
        ELSE IF fails THEN [k EXCEPT !.snap = <<>>, !.failed = @ \cup {<<sig, p>>}]
        ELSE [k EXCEPT !.snap = rest, !.log = Append(@, Cmd("kill", sig * 10 + p))]

\* The body of either loop of kill_processes for the entry of process p:
\* readlink raises FileNotFoundError for a process that is gone (passed
\* over); a root other than chrootdir is skipped; os.kill(pid, sig), an
\* exception of which is reported and the loop goes on.
Kill_entry(k, p, sig, fails) ==
    LET rest == Tail(k.snap)
    IN  IF k.proc[p] = "gone" THEN [k EXCEPT !.snap = rest]
        ELSE IF k.proc[p] # "chrooted" THEN [k EXCEPT !.snap = rest]
        ELSE IF fails THEN [k EXCEPT !.snap = rest, !.failed = @ \cup {<<sig, p>>}]
        ELSE [k EXCEPT !.snap = rest, !.log = Append(@, Cmd("kill", sig * 10 + p))]

\* The host when cleanup_chrootenv calls kill_processes: every process is
\* rooted at chrootdir or somewhere else.
InitKill ==
    \E proc \in [KillProcs -> {"chrooted", "elsewhere"}] :
        ch = [list |-> <<>>, proc |-> proc, pc |-> "idle", snap |-> <<>>,
              rootedAtCall |-> {}, exitedEarly |-> {},
              failed |-> {}, log |-> <<>>]

\* kill_processes is called: the first glob.
KillProcesses ==
    /\ ch.pc = "idle"
    /\ ch' = [ch EXCEPT !.pc = "term", !.snap = Glob_proc_root(ch),
                        !.rootedAtCall = {p \in KillProcs : ch.proc[p] = "chrooted"}]
    /\ UNCHANGED OthersThanChroot

\* One round of the first loop: os.kill(pid, 15).
TermOne ==
    /\ ch.pc = "term" /\ ch.snap # <<>>
    /\ \E fails \in BOOLEAN : ch' = Kill_entry(ch, Head(ch.snap), SIGTERM, fails)
    /\ UNCHANGED OthersThanChroot

\* The first loop is over: time.sleep(5).
TermDone ==
    /\ ch.pc = "term" /\ ch.snap = <<>>
    /\ ch' = [ch EXCEPT !.pc = "slept", !.log = Append(@, Cmd("sleep", 5))]
    /\ UNCHANGED OthersThanChroot

\* The second glob.
SecondGlob ==
    /\ ch.pc = "slept"
    /\ ch' = [ch EXCEPT !.pc = "kill", !.snap = Glob_proc_root(ch)]
    /\ UNCHANGED OthersThanChroot

\* One round of the second loop: os.kill(pid, 9).
KillOne ==
    /\ ch.pc = "kill" /\ ch.snap # <<>>
    /\ \E fails \in BOOLEAN : ch' = Kill_entry(ch, Head(ch.snap), SIGKILL, fails)
    /\ UNCHANGED OthersThanChroot

\* The second loop is over: time.sleep(2), and kill_processes returns.
KillDone ==
    /\ ch.pc = "kill" /\ ch.snap = <<>>
    /\ ch' = [ch EXCEPT !.pc = "done", !.log = Append(@, Cmd("sleep", 2))]
    /\ UNCHANGED OthersThanChroot

\* A process of the host exits while kill_processes runs, of itself or on a
\* signal it was sent; exitedEarly: before the second glob.
ProcExit(p) ==
    /\ ch.pc \notin {"idle", "done"} /\ ch.proc[p] # "gone"
    /\ ch' = [ch EXCEPT !.proc[p] = "gone",
                        !.exitedEarly = IF ch.pc \in {"term", "slept"}
                                        THEN @ \cup {p} ELSE @]
    /\ UNCHANGED OthersThanChroot

\* A process of the host changes its root to chrootdir while
\* kill_processes runs.
ProcEnter(p) ==
    /\ ch.pc \notin {"idle", "done"} /\ ch.proc[p] = "elsewhere"
    /\ ch' = [ch EXCEPT !.proc[p] = "chrooted"]
    /\ UNCHANGED OthersThanChroot

NextKill ==
    \/ KillProcesses \/ TermOne \/ TermDone \/ SecondGlob \/ KillOne \/ KillDone
    \/ \E p \in KillProcs : ProcExit(p) \/ ProcEnter(p)

(***************************************************************************)
(*          Part I: the order of the loop images of a LoopImageCreator     *)
(***************************************************************************)

\* The most directories below "/" in a kickstart mountpoint.
MaxDepth == 2

\* The most `part` lines with a filesystem in the kickstart.
MaxImages == 2

\* The characters of the mountpoints, in the order Python compares them.
PathChars == <<"-", "/", "a", "b">>

\* ord(c), up to the order.
Ord(c) == CHOOSE i \in 1..Len(PathChars) : PathChars[i] = c

\* The directory names of the mountpoints.
DirNames == { <<"a">>, <<"a", "-">>, <<"b">> }

RECURSIVE JoinDirs(_)
JoinDirs(p) == IF p = <<>> THEN <<>> ELSE <<"/">> \o Head(p) \o JoinDirs(Tail(p))

\* The mountpoints a kickstart may name: "/", "/a", "/a-/b", ...
Mountpoints ==
    { IF p = <<>> THEN <<"/">> ELSE JoinDirs(p) :
          p \in UNION { [1..d -> DirNames] : d \in 0..MaxDepth } }

\* a < b as Python compares two str: at the first position where they
\* differ, or the shorter one when it is a prefix of the other.
StrLess(a, b) ==
    \E k \in 1..(Len(b)) :
        /\ \A i \in 1..(k - 1) : i <= Len(a) /\ a[i] = b[i]
        /\ k > Len(a) \/ (k <= Len(a) /\ Ord(a[k]) < Ord(b[k]))

\* The list with x put in after the last entry that is not greater.
InsertByMountpoint(q, x) ==
    LET n == Cardinality({i \in 1..Len(q) : ~StrLess(x, q[i])})
    IN  SubSeq(q, 1, n) \o <<x>> \o SubSeq(q, n + 1, Len(q))

RECURSIVE Sorted_by_mountpoint(_)

\* The partitions taken in the order of the kickstart.
Kickstart_order(parts) == parts

\* sorted(kickstart.get_partitions(self.ks), key = lambda p: p.mountpoint)
Sorted_by_mountpoint(parts) ==
    IF parts = <<>> THEN <<>>
    ELSE InsertByMountpoint(Sorted_by_mountpoint(SubSeq(parts, 1, Len(parts) - 1)),
                            parts[Len(parts)])

\* The kickstart: its partitions with a filesystem, each on a mountpoint
\* of its own, in the order written.
InitImages ==
    \E n \in 1..MaxImages :
      \E parts \in [1..n -> Mountpoints] :
        /\ \A i, j \in 1..n : i # j => parts[i] # parts[j]
        /\ dm = [parts |-> parts, instloops |-> <<>>, mountOrder |-> <<>>,
                 cleanupOrder |-> <<>>, pc |-> "kickstart", raised |-> "none"]

\* LoopImageCreator.__init__: self._instloops
LoopImageCreatorInit ==
    /\ dm.pc = "kickstart"
    /\ dm' = [dm EXCEPT !.instloops = Sorted_by_mountpoint(dm.parts), !.pc = "created"]
    /\ UNCHANGED OthersThanMount

\* _mount_instroot: `for loop in self._instloops`, a mount() each; the
\* k-th may raise MountError.
MountInstroot ==
    /\ dm.pc = "created"
    /\ \E k \in 0..Len(dm.instloops) :
         dm' = [dm EXCEPT !.mountOrder = IF k = 0 THEN dm.instloops
                                         ELSE SubSeq(dm.instloops, 1, k - 1),
                          !.raised = IF k = 0 THEN "none" ELSE "MountError",
                          !.pc = "mounted"]
    /\ UNCHANGED OthersThanMount

\* _unmount_instroot: `for item in reversed(self._instloops)`, a cleanup()
\* of each that has its DiskMount; the umount of the k-th may fail, and
\* its MountError ends the loop.
UnmountInstroot ==
    /\ dm.pc = "mounted"
    /\ \E k \in 0..Len(dm.mountOrder) :
         LET n == Len(dm.mountOrder)
             all == [i \in 1..n |-> dm.instloops[n + 1 - i]]
         IN  dm' = [dm EXCEPT !.cleanupOrder = IF k = 0 THEN all
                                               ELSE SubSeq(all, 1, n - k),
                              !.raised = IF k = 0 THEN "none" ELSE "MountError",
                              !.pc = "cleaned"]
    /\ UNCHANGED OthersThanMount

NextImages == LoopImageCreatorInit \/ MountInstroot \/ UnmountInstroot

\* The values of the parts a specification does not move.
NoMount == Extend(ExtMount(DeclSize, DeclSize, DeclSize, MinData, FALSE), SearchIdle)
NoLoop == [nodes |-> {}, bound |-> {}]

NoChroot == [list |-> <<>>]
NoSnapshot ==
    [imgDevice |-> FALSE, cowDevice |-> FALSE, imgBound |-> FALSE,
     cowBound |-> FALSE, created |-> FALSE, name |-> FALSE, dmActive |-> FALSE,
     cowFile |-> None, cowUsed |-> 0, squashed |-> FALSE,
     call |-> NoSnapshotCall, log |-> <<>>, raised |-> "none", failAt |-> 0]

InitSpecMount ==
    InitMount /\ lp = NoLoop /\ rs = NoMount /\ ch = NoChroot /\ sn = NoSnapshot
SpecMount == InitSpecMount /\ [][NextMount]_vars

InitSpecLoop ==
    InitLoop /\ dm = NoMount /\ rs = NoMount /\ ch = NoChroot /\ sn = NoSnapshot
SpecLoop == InitSpecLoop /\ [][NextLoop]_vars

InitSpecSearch ==
    InitSearch /\ dm = NoMount /\ lp = NoLoop /\ ch = NoChroot /\ sn = NoSnapshot
SpecSearch == InitSpecSearch /\ [][NextSearch]_vars

InitSpecResparse ==
    InitResparse /\ dm = NoMount /\ lp = NoLoop /\ ch = NoChroot /\ sn = NoSnapshot
SpecResparse == InitSpecResparse /\ [][NextResparse]_vars

InitSpecChroot ==
    InitChroot /\ dm = NoMount /\ lp = NoLoop /\ rs = NoMount /\ sn = NoSnapshot
SpecChroot == InitSpecChroot /\ [][NextChroot]_vars

InitSpecBind ==
    InitBind /\ dm = NoMount /\ lp = NoLoop /\ rs = NoMount /\ sn = NoSnapshot
SpecBind == InitSpecBind /\ [][NextBind]_vars

InitSpecLabel ==
    InitLabel /\ lp = NoLoop /\ rs = NoMount /\ ch = NoChroot /\ sn = NoSnapshot
SpecLabel == InitSpecLabel /\ [][NextLabel]_vars

InitSpecPartition ==
    InitPartition /\ lp = NoLoop /\ rs = NoMount /\ ch = NoChroot /\ sn = NoSnapshot
SpecPartition == InitSpecPartition /\ [][NextPartition]_vars

InitSpecKill ==
    InitKill /\ dm = NoMount /\ lp = NoLoop /\ rs = NoMount /\ sn = NoSnapshot
SpecKill == InitSpecKill /\ [][NextKill]_vars

InitSpecImages ==
    InitImages /\ lp = NoLoop /\ rs = NoMount /\ ch = NoChroot /\ sn = NoSnapshot
SpecImages == InitSpecImages /\ [][NextImages]_vars

InitSpecSnapshot ==
    InitSnapshot /\ dm = NoMount /\ lp = NoLoop /\ rs = NoMount /\ ch = NoChroot
SpecSnapshot == InitSpecSnapshot /\ [][NextSnapshot]_vars

\* ---- Part A: properties ----------------------------------------------------

Issued(c) == \E i \in 1..Len(dm.log) : dm.log[i].cmd = c

\* C1: a mount() call made while the DiskMount is already mounted issues no
\* command at all: no mount, no mkfs, no fsck or resize2fs, no subvolume
\* creation, no write to the backing file, no losetup.
C1_SecondMountIsNoOp ==
    (dm.call.op = "mount" /\ dm.call.preMounted) => dm.log = <<>>

\* C1: mount() was called on a mounted DiskMount.
C1_SecondMountHappened == dm.call.op = "mount" /\ dm.call.preMounted

\* C2: unmount() or cleanup() called when nothing is mounted and the disk is
\* not bound (never mounted, or unmounted and released by an earlier call)
\* raises nothing and issues neither umount nor losetup, on every variant
\* constructed with a subvolume list.
C2_IdleUnmountIsQuiet ==
    (/\ dm.call.op \in {"unmount", "cleanup"}
     /\ ~dm.subvolumesNone
     /\ ~dm.call.preMounted /\ ~dm.call.preOsMounted /\ ~dm.call.preSubMounted
     /\ dm.kind # "raw" => ~dm.call.preDevice)
    => /\ dm.raised = "none"
       /\ ~Issued("umount") /\ ~Issued("umount -l") /\ ~Issued("umount subvolume")
       /\ ~Issued("losetup") /\ ~Issued("losetup -d")

\* C3: after cleanup(), however it ends, the disk's loop binding is released.
C3_CleanupReleasesLoop ==
    (dm.call.op = "cleanup" /\ dm.kind # "raw") => ~dm.device

\* The positions of the last call's log at which command c was issued.
IssuedAt(c) == {i \in 1..Len(dm.log) : dm.log[i].cmd = c}

\* C13: unmount() (or cleanup()) of a btrfs mount unmounts the subvolumes in
\* the reverse of the order in which they were mounted, which is the order
\* of the subvolume list, and all of them before the base mount.
C13_SubvolumesUnmountedInReverse ==
    dm.call.op \in {"unmount", "cleanup"} =>
        /\ \A i, j \in IssuedAt("umount subvolume") :
              i < j => dm.log[i].arg > dm.log[j].arg
        /\ \A i \in IssuedAt("umount subvolume"),
              j \in IssuedAt("umount -l") \cup IssuedAt("umount") : i < j

\* C14: over any sequence of calls the snapshot command of a declared
\* snapshot is carried out at most once.
C14_SnapshotCreatedOnce ==
    \A i \in DOMAIN dm.snapDone : dm.snapDone[i] <= 1

\* ---- Part C: properties ----------------------------------------------------

\* The least k with 2^k >= n: ceil(log2(n)) for n >= 1, and 0 for n = 0.
CeilLog2(n) == CHOOSE k \in 0..n : 2^k >= n /\ \A j \in 0..(k - 1) : 2^j < n

\* C7: whatever size top0 the search starts from (0 and 1 included), it makes
\* at most ceil(log2(top0)) resize attempts, and it ends with top = bot + 1.
C7_SearchWithinLogBound ==
    /\ rs.pc \in {"search", "minimal"} => rs.attempts <= CeilLog2(rs.top0)
    /\ rs.pc = "minimal" => rs.top = rs.bot + 1

\* C8: when every resize to t succeeded exactly when t >= m, for a minimal
\* size m with 0 < m <= top0, the search keeps bot < m <= top in every
\* iteration and returns m.
C8_SearchBracketsMinimal ==
    (/\ rs.pc \in {"search", "minimal"}
     /\ rs.faithful
     /\ 0 < rs.minData /\ rs.minData <= rs.top0)
    => /\ rs.bot < rs.minData /\ rs.minData <= rs.top
       /\ rs.pc = "minimal" => rs.minsize = rs.minData

\* C8: a search of several attempts, some refused and some accepted, that
\* returned a minimal size below the size it started from.
C8_SearchReturnedMinimal ==
    /\ rs.pc = "minimal" /\ rs.faithful
    /\ 1 < rs.minData /\ rs.minData < rs.top0
    /\ rs.attempts >= 3 /\ rs.minsize = rs.minData

\* C9: resparse(None) on an ext mount whose image file has the declared size
\* S ends with the image file at length S again.
C9_ResparseNoneRestoresSize ==
    (rs.variant = "ext" /\ rs.pc = "done" /\ rs.arg = None /\ rs.len0 = rs.size)
        => rs.fileLen = rs.size

\* C9: resparse(None) returned after it had shrunk the image below S.
C9_ShrunkAndRegrown ==
    /\ rs.variant = "ext" /\ rs.pc = "done" /\ rs.arg = None /\ rs.len0 = rs.size
    /\ rs.minsize < rs.size /\ rs.attempts >= 1
    /\ \E i \in 1..Len(rs.log) : rs.log[i].cmd = "write lofile"
    /\ rs.fileLen = rs.size

\* C10: after resparse(0) returned, the image file is as long as the minimal
\* size of the filesystem (what its data needs).
C10_ResparseZeroTruncates ==
    (rs.variant = "ext" /\ rs.pc = "done" /\ rs.arg = 0) => rs.fileLen = rs.minData

\* The commands of resparse() that work on the filesystem or the image file.
FsCommands == {"fsck", "resize2fs", "resize2fs -M", "ftruncate lofile", "write lofile"}

\* The commands of cleanup().
CleanupCommands == {"sync", "umount -l", "rmdir", "losetup -d"}

\* C28: resparse() of any variant issues fsck, resize and truncate only after
\* every command of cleanup(), with the filesystem unmounted and the device
\* released; when cleanup() raised, none of them was issued.
C28_ResparseWorksUnmounted ==
    rs.call.op = "resparse" =>
        /\ \A i, j \in 1..Len(rs.log) :
              (rs.log[i].cmd \in CleanupCommands /\ rs.log[j].cmd \in FsCommands) => i < j
        /\ (\E j \in 1..Len(rs.log) : rs.log[j].cmd \in FsCommands)
              => ~rs.mounted /\ ~rs.osMounted /\ ~rs.device
        /\ (rs.raised = "MountError" /\ rs.mounted)
              => \A j \in 1..Len(rs.log) : rs.log[j].cmd \notin FsCommands

\* C28: resparse() of a mounted btrfs mount unmounted it, released the
\* device and then truncated the image file.
C28_UnmountedThenTruncated ==
    /\ rs.call.op = "resparse" /\ rs.variant = "btrfs" /\ rs.call.preMounted
    /\ rs.pc = "done" /\ ~rs.mounted
    /\ \E i, j \in 1..Len(rs.log) :
          i < j /\ rs.log[i].cmd = "losetup -d" /\ rs.log[j].cmd = "ftruncate lofile"

\* C29: when the search of the ext resparse() has ended, the filesystem has
\* the size the search returned, every truncation of the image file is to
\* that size, and the image file is never left shorter than the filesystem.
C29_TruncateKeepsFilesystem ==
    (rs.variant = "ext" /\ rs.call.op = "resparse") =>
        /\ rs.pc = "minimal" => (rs.minsize = rs.top /\ rs.fsSize = rs.minsize)
        /\ \A i \in 1..Len(rs.log) :
              rs.log[i].cmd = "ftruncate lofile" => rs.log[i].arg = rs.minsize
        /\ rs.fileLen >= rs.fsSize

\* C29: a search in which a resize succeeded and a later one was refused
\* returned, and the image file was truncated to the size returned.
C29_TruncatedToLastSuccess ==
    /\ rs.variant = "ext" /\ rs.call.op = "resparse" /\ rs.pc \in {"done", "raised"}
    /\ rs.minsize < rs.top0 /\ rs.bot > 0
    /\ \E i \in 1..Len(rs.log) :
          rs.log[i] = Cmd("ftruncate lofile", rs.minsize)

\* C30: whenever resparse(size) of an ext mount grows the image file for
\* the final resize, it grows it to the size the caller supplied.
C30_GrownToSuppliedSize ==
    (rs.variant = "ext" /\ rs.call.op = "resparse" /\ rs.arg # None) =>
        \A i \in 1..Len(rs.log) :
            rs.log[i].cmd = "write lofile" => rs.log[i].arg = rs.arg

\* ---- Part B: properties ---------------------------------------------------

\* The processes that hold the flock on the lock file they opened.
InSection == {p \in Procs : lp.locked[p]}

\* C4: at any time at most one process is between acquiring the flock on
\* the lock file and releasing it.
C4_OneProcessInSection == Cardinality(InSection) <= 1

\* The processes whose Disk holds a device that get_loop_device returned.
Holders == {p \in Procs : lp.pc[p] = "bound"}

\* C5: a device that get_loop_device returned is attached to the caller's
\* backing file for as long as the caller holds it, and no two callers
\* hold the same device at the same time.
C5_ReturnedDeviceExclusive ==
    \A p \in Holders :
        /\ <<lp.device[p], p>> \in lp.bound
        /\ \A q \in Holders \ {p} : lp.device[q] # lp.device[p]

\* C39: the LoopDevice cleanup that runs at the exit of a process detaches
\* no loop device that is attached for another process, and unlinks the
\* node of none.
C39_ExitCleanupSparesOthers ==
    [][\A p \in Procs :
          (lp.pc[p] = "exiting" /\ lp'.created[p] # lp.created[p]) =>
              \A q \in Procs \ {p} :
                  \A d \in KernelIds :
                      <<d, q>> \in lp.bound =>
                          <<d, q>> \in lp'.bound /\ (d \in lp.nodes => d \in lp'.nodes)]_vars

\* C6: no call returns a device whose id is 100 or more, and a call whose
\* fast path found no id below 100 goes on to no attach and returns no
\* device.
C6_NoDeviceFromHundred ==
    \A p \in Procs :
        /\ lp.pc[p] = "bound" => lp.device[p] < LoopIdLimit
        /\ lp.exhausted[p] => lp.pc[p] \notin {"attach", "bound"}

\* The positions of get_loop_device between flock(LOCK_EX) and flock(LOCK_UN).
AllocationSteps == {"genloopid", "exists", "loseek", "mknod", "fallback", "unlock"}

\* C32: a process holds the allocation lock only while it decides on a
\* device: not while `losetup <dev> <file>` runs, not after the call
\* returned or raised; and a call that raised returned no device.
C32_LockOnlyWhileAllocating ==
    \A p \in Procs :
        /\ lp.locked[p] => lp.pc[p] \in AllocationSteps
        /\ lp.pc[p] \in {"attach", "bound", "idle", "exiting"} => lp.fp[p] = 0
        /\ lp.raising[p] => lp.pc[p] \notin {"attach", "bound"}
        /\ lp.pc[p] = "idle" => lp.device[p] = None

\* C32: one process is at the attach command, its lock released, while
\* the other holds the lock; and a call whose attach failed has raised.
C32_AttachOutsideLock ==
    \E p, q \in Procs :
        /\ p # q /\ lp.pc[p] = "attach" /\ ~lp.locked[p] /\ lp.locked[q]
        /\ lp.calls[p] = 2 /\ lp.raising[q] = FALSE

\* ---- Part D: properties ---------------------------------------------------

\* The binds for which the last call issued `umount -l`, in the order issued.
UmountArgs ==
    LET q == SelectSeq(ch.log, LAMBDA c : c.cmd = "umount -l")
    IN  [i \in 1..Len(q) |-> q[i].arg]

\* The last call tore down an environment that setup_chrootenv had set up
\* whole: cleanup_chrootenv after setup_chrootenv returned, by itself or
\* inside chroot().
TornDownAfterSetup ==
    \/ ch.call.op = "cleanup" /\ ch.call.preFresh
    \/ ch.call.op = "chroot" /\ ch.call.setupRaised = "none"

\* C11: the teardown of binds set up in the order 1..N issues its unmounts
\* in descending order, and when no chroot instance holds the lock they are
\* exactly N, N-1, .., 1.
C11_TeardownReversesSetup ==
    TornDownAfterSetup =>
        /\ \A i, j \in 1..Len(UmountArgs) : i < j => UmountArgs[i] > UmountArgs[j]
        /\ ch.call.holder # "bash" => UmountArgs = [i \in 1..ch.n |-> ch.n + 1 - i]

\* C11: a teardown of three or more binds that unmounted every one of them.
C11_ThreeOrMoreUnmounted ==
    /\ ch.call.op = "cleanup" /\ ch.call.preFresh /\ ch.n >= 3
    /\ Len(UmountArgs) = ch.n /\ UmountArgs[1] = ch.n /\ UmountArgs[ch.n] = 1

\* C15: a teardown that runs while another process has the lock file open
\* kills nothing, does not blank resolv.conf and does not remove /parentroot.
C15_HeldLockSkipsDestructive ==
    (ch.call.op \in {"cleanup", "chroot"} /\ ch.call.holder # "none") =>
        /\ ~ch.killed /\ ~ch.resolvBlanked
        /\ ch.call.prePrDir => ch.prDir

\* C16: a teardown that runs while another process has the lock file open
\* still issues the unmount of every bind of the environment.
C16_HeldLockStillUnmounts ==
    (TornDownAfterSetup /\ ch.call.holder # "none") =>
        \A b \in 1..ch.n : \E i \in 1..Len(UmountArgs) : UmountArgs[i] = b

\* C17: when setup_chrootenv raises inside chroot(), the error that reaches
\* the caller is that error, and no bind that the call mounted stays mounted.
C17_SetupFailureRolledBack ==
    (ch.call.op = "chroot" /\ ch.call.setupRaised # "none") =>
        /\ ch.raised = ch.call.setupRaised
        /\ \A b \in 1..ch.n : ch.os[b] => ch.call.preOs[b]

\* C18: cleanup_chrootenv called again after a completed teardown (lock
\* closed, nothing mounted, /parentroot removed) raises nothing and issues
\* no umount.
C18_SecondTeardownIsQuiet ==
    (/\ ch.call.op = "cleanup" /\ ch.call.preLockfd = "closed"
     /\ ~ch.call.prePrDir
     /\ \A b \in 1..ch.n : ~ch.call.preOs[b])
    => ch.raised = "none" /\ UmountArgs = <<>>

\* The binds for which the last call issued `mount --bind`, in the order
\* issued.
MountArgs ==
    LET q == SelectSeq(ch.log, LAMBDA c : c.cmd = "mount --bind")
    IN  [i \in 1..Len(q) |-> q[i].arg]

\* C12: whatever calls came before, a call of a BaseImageCreator mounts the
\* system directories in the order of their setup and unmounts them in the
\* reverse of it.
C12_BindOrderKept ==
    ch.call.op \in {"mount", "do", "undo", "unmount", "imgcleanup"} =>
        /\ \A i, j \in 1..Len(MountArgs) : i < j => MountArgs[i] < MountArgs[j]
        /\ \A i, j \in 1..Len(UmountArgs) : i < j => UmountArgs[i] > UmountArgs[j]

\* ---- Part E: properties ---------------------------------------------------

\* C19: a create() that raises leaves neither the image loop device nor the
\* COW loop device bound.
C19_FailedCreateLeavesNoLoop ==
    (sn.call.op = "create" /\ sn.raised # "none") =>
        ~sn.imgBound /\ ~sn.cowBound

\* C20: a create_image_minimizer that created its snapshot has run the
\* teardown and, every `losetup -d` having succeeded, has detached both
\* loop devices when it returns or raises.
C20_MinimizerDetachesLoops ==
    (/\ sn.call.op = "minimizer" /\ sn.call.snapCreated
     /\ sn.call.failedCmd # "losetup -d")
    => /\ \E i \in 1..Len(sn.log) : sn.log[i].cmd = "dmsetup remove"
       /\ ~sn.imgBound /\ ~sn.cowBound

\* ---- Part A: further properties ------------------------------------------

\* The last call issued the command c and it was not the command on which
\* the call raised.
IssuedAndPassed(c) ==
    \E i \in 1..Len(dm.log) :
        dm.log[i].cmd = c /\ (i = Len(dm.log) => dm.raised = "none")

C22_MountedImpliesOsMounted == dm.mounted => dm.osMounted

\* C24: a mount with skipformat that finds the subvolume sidecar of the
\* image and mounts the base reads the sidecar's lines back into its
\* subvolume list: the reading raises nothing and the list has the entries.
C24_SidecarReadBack ==
    (/\ dm.variant = "btrfs" /\ dm.call.op = "mount" /\ dm.skipformat
     /\ dm.metadata /\ ~dm.call.preMounted /\ dm.mounted)
    => /\ dm.raised \notin {"NameError", "AttributeError"}
       /\ Len(dm.subvolumes) > 0

\* C25: when do_create ends, by returning or by raising, and its cleanup()
\* found a build directory allocated, the build directory is removed, every
\* loop image is released, and every loop image whose umount did not fail
\* is unmounted.
C25_BuildAlwaysCleanedUp ==
    (ch.call.op = "do_create" /\ ch.cleanedDir) =>
        /\ ~ch.builddir
        /\ \A i \in 1..Len(ch.loops) :
              /\ ~ch.loops[i].device
              /\ i # ch.busy => ~ch.loops[i].mounted

\* ---- Part F: properties ---------------------------------------------------

\* C23: the label a mount stores is the label it was given cut to 16
\* characters on ext and to 32 on vfat and btrfs; a label within the limit
\* is stored as given.
C23_LabelTruncatedToLimit ==
    dm.op = "mount" =>
        LET limit == IF dm.variant = "ext" THEN 16 ELSE 32
        IN  /\ LabelLen(dm.fslabel) <= limit
            /\ LabelLen(dm.supplied) >= limit => LabelLen(dm.fslabel) = limit
            /\ LabelLen(dm.supplied) <= limit => dm.fslabel = dm.supplied

\* ---- Part G: properties ---------------------------------------------------

\* C26: when the mount of a partitioned image raises because the mount of
\* one of its partitions failed, no partition is mounted and the disk is
\* released by the time the caller has the error.
C26_PartialMountRolledBack ==
    (dm.op = "mount" /\ dm.raised # "none") =>
        /\ \A i \in 1..Len(dm.parts) : ~dm.parts[i].mounted
        /\ ~dm.mapped /\ ~dm.device

\* C26: the mount of the third of four partitions failed after two were
\* mounted, and the two were unmounted before the error left the call.
C26_ThirdOfFourFailed ==
    /\ dm.op = "mount" /\ dm.raised = "MountError" /\ Len(dm.parts) = 4
    /\ \E i \in 1..Len(dm.log) :
          /\ dm.log[i] = Cmd("mount", 3)
          /\ \A j \in 1..Len(dm.log) : dm.log[j].cmd = "mount" => j <= i
    /\ \E i, j \in 1..Len(dm.log) :
          i < j /\ dm.log[i] = Cmd("umount", 2) /\ dm.log[j] = Cmd("umount", 1)

\* C27: mount() of an ext, vfat or btrfs mount on a loopback disk whose
\* image file existed when mount() was called issues no mkfs; mkfs is
\* issued only without skipformat, and a mount() that went through on a
\* loopback disk whose file did not exist, without skipformat, issued it.
C27_ExistingFileNotFormatted ==
    (dm.call.op = "mount" /\ dm.variant \in {"ext", "vfat", "btrfs"}) =>
        /\ (dm.kind # "raw" /\ dm.call.preExists) => ~Issued("mkfs")
        /\ Issued("mkfs") => ~dm.skipformat
        /\ (dm.kind # "raw" /\ ~dm.call.preExists /\ ~dm.skipformat
               /\ dm.raised = "none") => Issued("mkfs")

\* C27: a mount() without skipformat found the image file, resized the
\* filesystem in it and mounted it.
C27_ExistingFileResized ==
    /\ dm.call.op = "mount" /\ dm.variant \in {"ext", "vfat", "btrfs"}
    /\ dm.kind = "sparse" /\ dm.call.preExists /\ ~dm.skipformat
    /\ Issued("fsck") /\ dm.mounted /\ ~dm.call.preMounted

\* ---- Part A: the disk under the mount --------------------------------------

\* C31: a mount() of a plain DiskMount that finds its disk bound, and so
\* calls Disk.create() on a bound disk, binds no loop device, keeps the
\* device and does not write to the image file.
C31_CreateOnBoundDiskNoOp ==
    (/\ dm.call.op = "mount" /\ dm.variant = "generic"
     /\ dm.call.preDevice /\ ~dm.call.preMounted)
    => ~Issued("losetup") /\ ~Issued("write lofile") /\ dm.device

\* ---- Part D: the order of the binds ----------------------------------------

\* C33: a setup_chrootenv that returned issued its bind mounts with the
\* user's and the default binds first, then the /lib/modules binds, and
\* the bind of the host root at /parentroot last.
C33_ParentrootBoundLast ==
    (ch.call.op = "setup" /\ ch.raised = "none") =>
        \A i, j \in 1..Len(ch.log) :
            (/\ ch.log[i].cmd = "mount --bind" /\ ch.log[j].cmd = "mount --bind"
             /\ ch.log[i].arg = ch.pr /\ ch.log[j].arg # ch.pr) => j < i

\* ---- Part H: properties ---------------------------------------------------

\* The positions in the log at which signal sig was sent to process p.
SentAt(sig, p) == {i \in 1..Len(ch.log) : ch.log[i] = Cmd("kill", sig * 10 + p)}

\* The position in the log of time.sleep(5), 0 before it.
SleptAt ==
    IF \E i \in 1..Len(ch.log) : ch.log[i] = Cmd("sleep", 5)
    THEN CHOOSE i \in 1..Len(ch.log) : ch.log[i] = Cmd("sleep", 5)
    ELSE 0

\* C34: once the first pass is over, every process that was rooted at
\* chrootdir at the call and still is was sent SIGTERM unless signalling it
\* failed; SIGKILL is sent only after the wait that follows the whole first
\* pass, only to a process rooted at chrootdir then; a process that exited
\* before the second snapshot is never sent SIGKILL.
C34_TermThenKillSurvivors ==
    \A p \in KillProcs :
        /\ (ch.pc \notin {"idle", "term"} /\ p \in ch.rootedAtCall
               /\ ch.proc[p] = "chrooted" /\ <<SIGTERM, p>> \notin ch.failed)
              => SentAt(SIGTERM, p) # {}
        /\ \A i \in SentAt(SIGTERM, p) : SleptAt = 0 \/ i < SleptAt
        /\ \A i \in SentAt(SIGKILL, p) : SleptAt # 0 /\ SleptAt < i
        /\ SentAt(SIGKILL, p) # {} => p \notin ch.exitedEarly
        /\ (ch.pc = "done" /\ ch.proc[p] = "chrooted" /\ p \in ch.rootedAtCall
               /\ <<SIGKILL, p>> \notin ch.failed)
              => SentAt(SIGKILL, p) # {}

\* C34: process 1 could not be sent SIGTERM and the pass went on to
\* process 2; process 1 exited during the wait and was sent nothing more,
\* process 2 survived and was sent SIGKILL.
C34_OneGoneOneKilled ==
    /\ ch.pc = "done" /\ <<SIGTERM, 1>> \in ch.failed
    /\ 1 \in ch.exitedEarly /\ SentAt(SIGKILL, 1) = {}
    /\ SentAt(SIGTERM, 2) # {} /\ SentAt(SIGKILL, 2) # {}

\* ---- Part E: the status line ------------------------------------------------

\* C35: a get_cow_used() that raises, which it does on a status line it
\* cannot parse, raises SnapshotError.
C35_MalformedStatusTypedError ==
    (sn.call.op = "get_cow_used" /\ sn.raised # "none") => sn.raised = "SnapshotError"

\* ---- Part A: after a mount command that failed -----------------------------

\* The variants whose unmount() and cleanup() are DiskMount's own.
PlainUnmount == {"generic", "ext", "vfat"}

C37_OnlyOwnDirRemoved ==
    /\ (dm.call.op \in {"unmount", "cleanup"} /\ Issued("rmdir")) =>
          /\ dm.madeDir /\ dm.rmmountdir /\ dm.call.preRmdir
          /\ ~dm.mounted /\ ~dm.rmdir
          /\ \A i \in IssuedAt("umount -l"), j \in IssuedAt("rmdir") : i < j
          /\ dm.raised = "none"
    /\ dm.rmdir => (dm.madeDir /\ dm.rmmountdir)
    /\ (dm.call.op = "mount" /\ Issued("makedirs")) => (dm.rmdir = dm.rmmountdir)

\* C37: unmount() unmounted a mount whose directory the mount had made, and
\* its rmdir failed: the directory is still there and nothing was raised.
C37_FailedRmdirNoError ==
    /\ dm.call.op = "unmount" /\ dm.call.preMounted /\ dm.call.preRmdir
    /\ Issued("umount -l") /\ Issued("rmdir")
    /\ dm.dirExists /\ ~dm.mounted /\ dm.raised = "none"

\* ---- Part I: properties ---------------------------------------------------

\* The directory a is above the directory b.
IsAncestor(a, b) ==
    /\ a # b
    /\ \/ a = <<"/">>
       \/ /\ Len(a) < Len(b) /\ SubSeq(b, 1, Len(a)) = a /\ b[Len(a) + 1] = "/"

\* The position of x in the sequence q, 0 when it is not in it.
PositionIn(q, x) ==
    IF \E i \in 1..Len(q) : q[i] = x THEN CHOOSE i \in 1..Len(q) : q[i] = x ELSE 0

FileLength(s) == IF s.fileExists THEN s.fileLen ELSE 0

\* C40: expand only grows the backing file: a call that expands it writes
\* at no offset below the length the file had, so that a file already as
\* long as the size asked for is left as it was, and the file ends up as
\* long as the longer of the two, whether or not the disk is bound.
C40_ExpandOnlyGrows ==
    [][\A i \in 1..Len(dm'.log) :
          dm'.log[i].cmd = "write lofile" =>
              /\ dm'.fileLen = Max(FileLength(dm), dm'.log[i].arg)
              /\ dm'.log[i].arg - 1 >= FileLength(dm)]_vars

====
